---- MODULE Spec2Model ----
(***************************************************************************)
(* A model of the Zinc constraint-generating virtual machine (zinc-vm):    *)
(* the evaluation, data and condition stacks, the branch instructions      *)
(* If / Else / EndIf, Assert, Add, Gt, Push, Load and Store, together with *)
(* the constraint-system operations every instruction performs; of the     *)
(* std::crypto::blake2s library call; and of the namespaces taken by the   *)
(* reference interpreter.                                                  *)
(*                                                                         *)
(* Two executions of the same bytecode are carried in lock step: `vm`, the *)
(* execution with witness values, and `setup`, the execution that carries  *)
(* no witness values (circuit synthesis for the key generator).  The       *)
(* bytecode is not fixed in advance: every step executes any instruction,  *)
(* so the behaviours cover every bytecode up to MaxSteps instructions.     *)
(*                                                                         *)
(* Field elements are modelled as mathematical integers: every value that  *)
(* is reachable within the bounds is far below the 254-bit modulus, so no  *)
(* reduction ever takes place.                                             *)
(*                                                                         *)
(* The module also models the semantic analyzer of zinc-compiler: the      *)
(* scopes of a module, its statements (struct, enum, impl, fn, let, const, *)
(* mod), the process-wide type index that gives out the unique_id of every *)
(* declared type, constant folding, casts and conditional expressions; and *)
(* the frames of the zrustm stack machine.  Each of these has its own      *)
(* specification (SpecScope, SpecIndex, SpecCompile, SpecFold, SpecCast,   *)
(* SpecConditional, SpecFrames) over its own variables.                    *)
(*                                                                         *)
(* Further specifications: SpecBlake (the stack effect and the bit order   *)
(* of Blake2s and Blake2sMultiInput), SpecGt (the operands of Gt),         *)
(* SpecInterpreter (statements of the reference interpreter: debug,        *)
(* require, conditionals and loops), SpecLoop (Analyzer::for against the   *)
(* loop of the interpreter, with a machine word of USIZE_BITS bits) and    *)
(* SpecBytecode (the instructions emitted for an entry module with         *)
(* dependencies, executed from instruction 0).                             *)
(***************************************************************************)
EXTENDS Integers, Sequences, FiniteSets, TLC

\* ------------------------------------------------------------------ bounds
MaxSteps == 7
MaxNesting == 2
MaxStack == 2
MaxStatements == 3

\* the statements of one compilation and the blocks nested in a function
MaxLines == 5

MaxBlocks == 1

\* the declarations of one analyzer and the statements of one source
MaxDeclarations == 1

MaxSource == 2

\* the constants of one module
MaxConstants == 2

\* the values on the stack of zrustm and its open frames
MaxValues == 4

MaxFrames == 2

\* the bytes of the message of a Blake2s call
MaxBytes == 2

\* the statements one interpreter executes
MaxExecuted == 2

\* the bits of the machine word (usize), scaled down
USIZE_BITS == 3

\* usize::MAX
USIZE_MAX == (2 ^ USIZE_BITS) - 1

\* ------------------------------------------------------- program constants
\* bit length of the integer type used by the bytecode (IntegerType::I8)
BitLength == 8

IntMin == -(2 ^ (BitLength - 1))
IntMax == 2 ^ (BitLength - 1) - 1

\* values the bytecode pushes as I8 constants, and the I8 witness inputs
PushInts == {1}
InputInts == {0, 127}
Messages == {"", "msg"}

\* the length of a Blake2s digest in bits
DigestLength == 256

\* the bitlength of a byte and of a field element
BITLENGTH_BYTE == 8

BITLENGTH_FIELD == 254

\* the message lengths of the Blake2s calls and the bytes on the stack
MessageLengths == {0, 4, 8}
ByteValues == {0, 1, 128, 255}

\* the identifiers of the `let` statements
Identifiers == {"a", "b", "temp_000002"}

VARIABLES vm, setup, instr, obs, steps, arms, closed, finished

\* the state of one std::crypto::blake2s call and of one interpreter
VARIABLES blake, interp

\* the semantic analyzer of one compilation with the statement it analyzed
\* last, the analyzers of one process, two compilations in a row, and the
\* stack machine of zrustm
VARIABLES analyzer, last, process, compilation, zrustm

compilerVars == <<analyzer, last, process, compilation, zrustm>>

vmVars == <<vm, setup, instr, obs, steps, arms, closed, finished>>

vars == <<vm, setup, instr, obs, steps, arms, closed, finished, blake, interp,
          analyzer, last, process, compilation, zrustm>>

\* ------------------------------------------------------------------ scalars
\* A Scalar: an optional field value, a type, and whether it is a constant
\* (no variable in the constraint system) or an allocated variable.
Const(v, t) == [known |-> TRUE, v |-> v, t |-> t, c |-> TRUE]

Variable(known, v, t) == [known |-> known, v |-> IF known THEN v ELSE 0, t |-> t, c |-> FALSE]

InRange(v, t) ==
  CASE t = "bool" -> v \in {0, 1}
    [] t = "i8" -> v >= IntMin /\ v <= IntMax
    [] OTHER -> TRUE

\* ----------------------------------------------- constraint-system records
Alloc(ns, name) == [op |-> "alloc", ns |-> ns, name |-> name, sat |-> TRUE]

Enforce(ns, name, sat) == [op |-> "enforce", ns |-> ns, name |-> name, sat |-> sat]

\* the shape of a list of constraint-system operations: kind, namespace, label
Shape(ops) == [i \in 1..Len(ops) |-> <<ops[i].op, ops[i].ns, ops[i].name>>]

AllSat(ops) == \A i \in 1..Len(ops) : ops[i].sat

Ok(r, ops) == [err |-> "None", msg |-> "", r |-> r, cs |-> ops]

Err(e, m, ops) == [err |-> e, msg |-> m, r |-> Const(0, "field"), cs |-> ops]

\* ------------------------------------------------------------------ gadgets
\* auto_const!: when every operand is a constant the gadget runs on a
\* constant constraint system and the result is a constant
BinaryGadget(ns, label, a, b, v, t) ==
  IF a.c /\ b.c
  THEN Ok(Const(v, t), <<>>)
  ELSE Ok(Variable(a.known /\ b.known, v, t),
          <<Alloc(ns, "variable"), Enforce(ns, label, TRUE)>>)

not(ns, a) ==
  IF a.t # "bool" THEN Err("TypeError", "", <<>>)
  ELSE IF a.c THEN Ok(Const(1 - a.v, "bool"), <<>>)
  ELSE Ok(Variable(a.known, 1 - a.v, "bool"),
          <<Alloc(ns, "variable"), Enforce(ns, "not", TRUE)>>)

and(ns, a, b) ==
  IF a.t # "bool" \/ b.t # "bool" THEN Err("TypeError", "", <<>>)
  ELSE BinaryGadget(ns, "and", a, b, a.v * b.v, "bool")

or(ns, a, b) ==
  IF a.t # "bool" \/ b.t # "bool" THEN Err("TypeError", "", <<>>)
  ELSE BinaryGadget(ns, "or", a, b, a.v + b.v - a.v * b.v, "bool")

\* selector * computed + (1 - selector) * previous
conditional_select(ns, sel, computed, previous) ==
  IF sel.t # "bool" \/ computed.t # previous.t THEN Err("TypeError", "", <<>>)
  ELSE IF sel.c THEN Ok(IF sel.v = 1 THEN computed ELSE previous, <<>>)
  ELSE Ok(Variable(sel.known /\ computed.known /\ previous.known,
                   sel.v * computed.v + (1 - sel.v) * previous.v, computed.t),
          <<Alloc(ns, "variable"), Enforce(ns, "select", TRUE)>>)

greater_than(ns, left, right) ==
  IF left.t # right.t \/ left.t # "i8" THEN Err("TypeError", "", <<>>)
  ELSE BinaryGadget(ns, "gt", left, right, IF left.v > right.v THEN 1 ELSE 0, "bool")

\* the range check of a sum against the integer type of the operands
type_check(ns, a, t) ==
  IF a.known /\ ~InRange(a.v, t) THEN Err("ValueOverflow", "", <<>>)
  ELSE IF a.c THEN Ok(Const(a.v, t), <<>>)
  ELSE Ok(Variable(a.known, a.v, t),
          <<Alloc(ns, "bits"), Enforce(ns, "range", TRUE)>>)

\* the sum computed in wrapping 8-bit arithmetic
add_inner_wrapping(ns, left, right) ==
  Ok(Variable(left.known /\ right.known,
              ((left.v + right.v - IntMin) % (2 ^ BitLength)) + IntMin, "field"),
     <<Alloc(ns, "variable"), Enforce(ns, "add", TRUE)>>)

\* gadgets/arithmetic/add.rs, fn inner
add_inner(ns, left, right) ==
  Ok(Variable(left.known /\ right.known, left.v + right.v, "field"),
     <<Alloc(ns, "variable"), Enforce(ns, "add", TRUE)>>)

\* gadgets/arithmetic/add.rs, fn add
add(ns, left, right) ==
  IF left.c /\ right.c
  THEN Ok(Const(add_inner(ns, left, right).r.v, add_inner(ns, left, right).r.t), <<>>)
  ELSE add_inner(ns, left, right)

\* the inverse of a boolean field element, zero when there is none
Inverse(v) == IF v = 1 THEN 1 ELSE 0

MessageText(message) == IF message = "" THEN "<no message>" ELSE message

\* the zero test left out: the inverse is allocated and the constraint is
\* enforced on a zero element
assert_no_zero_test(ns, element, message) ==
  Ok(element,
     <<Alloc(ns, "inverse"),
       Enforce(ns, "assertion",
               element.known => element.v * Inverse(element.v) = 1)>>)

\* the constraint left out when the witness is known to be non-zero
assert_skip_when_known(ns, element, message) ==
  IF element.known /\ element.v = 0
  THEN Err("AssertionError", MessageText(message), <<>>)
  ELSE IF element.known /\ ~element.c THEN Ok(element, <<>>)
  ELSE Ok(element,
          <<Alloc(ns, "inverse"), Enforce(ns, "assertion", TRUE)>>)

\* gadgets/assert.rs, fn assert
assert(ns, element, message) ==
  IF element.known /\ element.v = 0
  THEN Err("AssertionError", MessageText(message), <<>>)
  ELSE Ok(element,
          <<Alloc(ns, "inverse"),
            Enforce(ns, "assertion",
                    element.known => element.v * Inverse(element.v) = 1)>>)

\* ---------------------------------------------------------- execution state
\* ExecutionState of one run.  The evaluation stack is a stack of forks: a
\* branch arm works on its own fork and the forks are merged by EndIf.
InitState(witness, a, c) ==
  [evaluation_stack |-> << <<>> >>,
   data_stack |-> <<Variable(witness, a, "i8"), Variable(witness, c, "bool")>>,
   condition_stack |-> <<Const(1, "bool")>>,
   blocks |-> <<>>,
   error |-> "None",
   message |-> "",
   cs |-> <<>>,
   count |-> 0]

\* a RuntimeError ends the run: the error is returned with its message and
\* the execution state is dropped
Fail(s, e, m, ops) ==
  [evaluation_stack |-> << <<>> >>,
   data_stack |-> <<>>,
   condition_stack |-> <<>>,
   blocks |-> <<>>,
   error |-> e,
   message |-> m,
   cs |-> ops,
   count |-> s.count + Len(ops)]

Done(s, ops) == [s EXCEPT !.cs = ops, !.count = @ + Len(ops)]

Last(q) == q[Len(q)]

Front(q) == SubSeq(q, 1, Len(q) - 1)

Top(s) == Last(s.evaluation_stack)

RECURSIVE Flat(_)
Flat(forks) == IF forks = <<>> THEN <<>> ELSE forks[1] \o Flat(Tail(forks))

Depth(s) == Len(Flat(s.evaluation_stack))

CanPop(s) == Len(Top(s)) > 0

\* IVirtualMachine::push
push(s, cell) ==
  [s EXCEPT !.evaluation_stack[Len(s.evaluation_stack)] = Append(@, cell)]

\* IVirtualMachine::pop, the state after a successful pop
popped(s) ==
  [s EXCEPT !.evaluation_stack[Len(s.evaluation_stack)] = Front(@)]

\* IVirtualMachine::condition_top
condition_top(s) == Last(s.condition_stack)

\* IVirtualMachine::branch_then
branch_then(s) ==
  IF ~CanPop(s) THEN Fail(s, "StackUnderflow", "", <<>>)
  ELSE IF s.condition_stack = <<>> THEN Fail(s, "StackUnderflow", "", <<>>)
  ELSE
    LET condition == Last(Top(s))
        prev == condition_top(s)
        next == and("branch", condition, prev)
        s1 == popped(s)
    IN IF next.err # "None" THEN Fail(s1, next.err, next.msg, next.cs)
       ELSE Done([s1 EXCEPT !.condition_stack = Append(@, next.r),
                            !.blocks = Append(@, [condition |-> condition, is_else |-> FALSE]),
                            !.evaluation_stack = Append(@, <<>>)],
                 next.cs)

\* IVirtualMachine::branch_else
branch_else(s) ==
  IF s.blocks = <<>> THEN Fail(s, "UnexpectedElse", "", <<>>)
  ELSE IF Last(s.blocks).is_else THEN Fail(s, "UnexpectedElse", "", <<>>)
  ELSE IF Len(s.condition_stack) < 2 THEN Fail(s, "StackUnderflow", "", <<>>)
  ELSE
    LET condition == Last(s.blocks).condition
        prev == Last(Front(s.condition_stack))
        not_cond == not("not", condition)
        next == and("and", prev, not_cond.r)
    IN IF not_cond.err # "None" THEN Fail(s, not_cond.err, not_cond.msg, not_cond.cs)
       ELSE IF next.err # "None" THEN Fail(s, next.err, next.msg, not_cond.cs \o next.cs)
       ELSE Done([s EXCEPT !.condition_stack = Append(Front(@), next.r),
                           !.blocks = Append(Front(@), [condition |-> condition, is_else |-> TRUE]),
                           !.evaluation_stack = Append(@, <<>>)],
                 not_cond.cs \o next.cs)

\* EvaluationStack::merge: the pairwise conditional selection of the two arms
RECURSIVE MergeArms(_, _, _, _)
MergeArms(condition, then, else, i) ==
  IF i > Len(then) THEN [err |-> "None", vals |-> <<>>, cs |-> <<>>]
  ELSE LET sel == conditional_select("merge", condition, then[i], else[i])
           rest == MergeArms(condition, then, else, i + 1)
       IN IF sel.err # "None" THEN [err |-> sel.err, vals |-> <<>>, cs |-> sel.cs]
          ELSE IF rest.err # "None" THEN [err |-> rest.err, vals |-> <<>>, cs |-> sel.cs \o rest.cs]
          ELSE [err |-> "None", vals |-> <<sel.r>> \o rest.vals, cs |-> sel.cs \o rest.cs]

\* IVirtualMachine::branch_end
branch_end(s) ==
  IF s.blocks = <<>> THEN Fail(s, "UnexpectedEndIf", "", <<>>)
  ELSE IF Len(s.condition_stack) < 2 THEN Fail(s, "StackUnderflow", "", <<>>)
  ELSE
    LET branch == Last(s.blocks)
        n == Len(s.evaluation_stack)
        s1 == [s EXCEPT !.condition_stack = Front(@), !.blocks = Front(@)]
    IN IF branch.is_else
       THEN LET else == s.evaluation_stack[n]
                then == s.evaluation_stack[n - 1]
                parent == s.evaluation_stack[n - 2]
                m == MergeArms(branch.condition, then, else, 1)
            IN IF Len(then) # Len(else) THEN Fail(s1, "BranchStacksDoNotMatch", "", <<>>)
               ELSE IF m.err # "None" THEN Fail(s1, m.err, "", m.cs)
               ELSE Done([s1 EXCEPT !.evaluation_stack =
                                      Append(SubSeq(@, 1, n - 3), parent \o m.vals)],
                         m.cs)
       ELSE Done([s1 EXCEPT !.evaluation_stack = Front(@)], <<>>)

\* ------------------------------------------------------------- instructions
\* instructions/flow/conditional.rs
If_execute(s) == branch_then(s)

\* a slip in the delegation: Else opens a branch as If does
Else_execute_as_then(s) == branch_then(s)

Else_execute(s) == branch_else(s)

\* a slip in the delegation: EndIf switches the arm as Else does
EndIf_execute_as_else(s) == branch_else(s)

EndIf_execute(s) == branch_end(s)

\* the `Push` instruction: a constant of the bytecode
Push_execute(s, value, type) == Done(push(s, Const(value, type)), <<>>)

\* the `Load` instruction (one scalar)
Load_execute(s, index) == Done(push(s, s.data_stack[index]), <<>>)

\* the `Store` instruction (one scalar): the write is masked by the selector
Store_execute(s, index) ==
  IF ~CanPop(s) THEN Fail(s, "StackUnderflow", "", <<>>)
  ELSE
    LET computed == Last(Top(s))
        previous == s.data_stack[index]
        sel == conditional_select("store", condition_top(s), computed, previous)
        s1 == popped(s)
    IN IF sel.err # "None" THEN Fail(s1, sel.err, sel.msg, sel.cs)
       ELSE Done([s1 EXCEPT !.data_stack[index] = sel.r], sel.cs)

\* the `Add` instruction: the sum gadget, then the range check of the result
\* against the integer type of the operands
Add_execute(s) ==
  IF Len(Top(s)) < 2 THEN Fail(s, "StackUnderflow", "", <<>>)
  ELSE
    LET right == Last(Top(s))
        left == Last(Front(Top(s)))
        s1 == popped(popped(s))
        unchecked == add("sum", left, right)
        checked == type_check("type_check", unchecked.r, left.t)
    IN IF left.t # right.t \/ left.t = "bool" THEN Fail(s1, "TypeError", "", <<>>)
       ELSE IF checked.err # "None" THEN Fail(s1, checked.err, checked.msg, unchecked.cs \o checked.cs)
       ELSE Done(push(s1, checked.r), unchecked.cs \o checked.cs)

\* the `Gt` instruction with the operands taken in the order of the pops
Gt_execute_swapped(s) ==
  IF Len(Top(s)) < 2 THEN Fail(s, "StackUnderflow", "", <<>>)
  ELSE
    LET left == Last(Top(s))
        right == Last(Front(Top(s)))
        s1 == popped(popped(s))
        gt == greater_than("gt", left, right)
    IN IF gt.err # "None" THEN Fail(s1, gt.err, gt.msg, gt.cs)
       ELSE Done(push(s1, gt.r), gt.cs)

\* instructions/operators/comparison/gt.rs
Gt_execute(s) ==
  IF Len(Top(s)) < 2 THEN Fail(s, "StackUnderflow", "", <<>>)
  ELSE
    LET right == Last(Top(s))
        left == Last(Front(Top(s)))
        s1 == popped(popped(s))
        gt == greater_than("gt", left, right)
    IN IF gt.err # "None" THEN Fail(s1, gt.err, gt.msg, gt.cs)
       ELSE Done(push(s1, gt.r), gt.cs)

\* the assertion applied to the popped value, the selector forgotten
Assert_execute_unmasked(s, message) ==
  IF ~CanPop(s) THEN Fail(s, "StackUnderflow", "", <<>>)
  ELSE
    LET value == Last(Top(s))
        s1 == popped(s)
        res == assert("assert", value, message)
    IN IF value.t # "bool" THEN Fail(s1, "TypeError", "", <<>>)
       ELSE IF res.err # "None" THEN Fail(s1, res.err, res.msg, res.cs)
       ELSE Done(s1, res.cs)

\* instructions/assert.rs
Assert_execute(s, message) ==
  IF ~CanPop(s) THEN Fail(s, "StackUnderflow", "", <<>>)
  ELSE IF s.condition_stack = <<>> THEN Fail(popped(s), "StackUnderflow", "", <<>>)
  ELSE
    LET value == Last(Top(s))
        s1 == popped(s)
        condition == condition_top(s1)
        not_c == not("not", condition)
        cond2 == or("or", value, not_c.r)
        res == assert("assert", cond2.r, message)
    IN IF not_c.err # "None" THEN Fail(s1, not_c.err, not_c.msg, not_c.cs)
       ELSE IF cond2.err # "None" THEN Fail(s1, cond2.err, cond2.msg, not_c.cs \o cond2.cs)
       ELSE IF res.err # "None" THEN Fail(s1, res.err, res.msg, not_c.cs \o cond2.cs \o res.cs)
       ELSE Done(s1, not_c.cs \o cond2.cs \o res.cs)

\* the end of the bytecode: the branches must be closed
End_execute(s) ==
  IF Len(s.condition_stack) # 1 THEN Fail(s, "UnbalancedBranches", "", <<>>)
  ELSE Done(s, <<>>)

\* the errors of the class MalformedBytecode
BytecodeErrors == {"StackUnderflow", "UnexpectedElse", "UnexpectedEndIf",
                   "BranchStacksDoNotMatch", "UnbalancedBranches"}

\* -------------------------------------------------- std::crypto::blake2s
Label(name, index) == [name |-> name, index |-> index]

\* Vec::reverse
reverse(q) == [i \in 1..Len(q) |-> q[Len(q) + 1 - i]]

\* input.chunks_mut(8).for_each(|p| p.reverse())
reverse_byte_bits(input) ==
  [i \in 1..Len(input) |->
     LET start == 8 * ((i - 1) \div 8)
         size == IF Len(input) - start < 8 THEN Len(input) - start ELSE 8
     IN input[start + size - (i - 1 - start)]]

RECURSIVE WeightedSum(_, _)
WeightedSum(bits, i) ==
  IF i > Len(bits) THEN 0 ELSE bits[i] * i + WeightedSum(bits, i + 1)

\* franklin_crypto::circuit::blake2s::blake2s: the compression function is
\* not modelled; the digest is a fixed function of the preimage with the
\* length of the real digest
blake2s(bits) ==
  [j \in 1..DigestLength |-> (WeightedSum(bits, 1) + Len(bits) + j * (1 + WeightedSum(bits, 1))) % 2]

\* Blake2s::new that takes every message length
Blake2s_new_any_length(message_length) == "None"

\* Blake2s::new
Blake2s_new(message_length) ==
  IF message_length % 8 = 0 THEN "None" ELSE "InvalidArguments"

\* `preimage` and `digest` are what the call hands to the hash gadget and
\* what the gadget returns
BlakeState(message_length, stack) ==
  [message_length |-> message_length, stack |-> stack, labels |-> <<>>,
   error |-> Blake2s_new(message_length), called |-> FALSE,
   preimage |-> <<>>, digest |-> <<>>]

\* the loop that pops the message bits, each converted in its own namespace
RECURSIVE PopBits(_, _, _, _, _)
PopBits(stack, i, n, bits, labels) ==
  IF i >= n THEN [error |-> "None", stack |-> stack, bits |-> bits, labels |-> labels]
  ELSE IF stack = <<>>
       THEN [error |-> "StackUnderflow", stack |-> stack, bits |-> bits, labels |-> labels]
       ELSE PopBits(SubSeq(stack, 1, Len(stack) - 1), i + 1, n,
                    Append(bits, stack[Len(stack)]),
                    Append(labels, Label("bit", i)))

\* Blake2s::call without the reversal of the popped bits
Blake2s_call_in_pop_order(b) ==
  LET p == PopBits(b.stack, 0, b.message_length, <<>>, <<>>)
      bits == reverse_byte_bits(p.bits)
      digest == blake2s(bits)
      digest_bits == reverse_byte_bits(digest)
  IN IF p.error # "None"
     THEN [b EXCEPT !.stack = p.stack, !.labels = p.labels, !.error = p.error,
                    !.called = TRUE]
     ELSE [b EXCEPT !.stack = p.stack \o digest_bits,
                    !.labels = p.labels \o <<Label("blake2s", -1)>>
                                 \o [j \in 1..Len(digest_bits) |-> Label("from_boolean", -1)],
                    !.called = TRUE, !.preimage = bits, !.digest = digest]

\* Blake2s::call
Blake2s_call(b) ==
  LET p == PopBits(b.stack, 0, b.message_length, <<>>, <<>>)
      bits == reverse_byte_bits(reverse(p.bits))
      digest == blake2s(bits)
      digest_bits == reverse_byte_bits(digest)
  IN IF p.error # "None"
     THEN [b EXCEPT !.stack = p.stack, !.labels = p.labels, !.error = p.error,
                    !.called = TRUE]
     ELSE [b EXCEPT !.stack = p.stack \o digest_bits,
                    !.labels = p.labels \o <<Label("blake2s", -1)>>
                                 \o [j \in 1..Len(digest_bits) |-> Label("from_boolean", -1)],
                    !.called = TRUE, !.preimage = bits, !.digest = digest]

\* ------------------------------------- std::crypto::blake2s_multi_input
BYTE_LENGTH == 8

\* Blake2sMultiInput::new
Blake2sMultiInput_new(message_length) ==
  IF message_length % 8 = 0 THEN "None" ELSE "InvalidArguments"

\* input.chunks_mut(BYTE_LENGTH).for_each(|p| p.reverse())
reverse_byte_bits_multi_input(input) ==
  [i \in 1..Len(input) |->
     LET start == BYTE_LENGTH * ((i - 1) \div BYTE_LENGTH)
         size == IF Len(input) - start < BYTE_LENGTH THEN Len(input) - start
                 ELSE BYTE_LENGTH
     IN input[start + size - (i - 1 - start)]]

\* Blake2sMultiInput::execute
Blake2sMultiInput_execute(b) ==
  LET p == PopBits(b.stack, 0, b.message_length, <<>>, <<>>)
      bits == reverse_byte_bits_multi_input(reverse(p.bits))
      digest == blake2s(bits)
      digest_bits == reverse_byte_bits_multi_input(digest)
  IN IF p.error # "None"
     THEN [b EXCEPT !.stack = p.stack, !.labels = p.labels, !.error = p.error,
                    !.called = TRUE]
     ELSE [b EXCEPT !.stack = p.stack \o digest_bits,
                    !.labels = p.labels \o <<Label("blake2s", -1)>>
                                 \o [j \in 1..Len(digest_bits) |-> Label("from_boolean", -1)],
                    !.called = TRUE, !.preimage = bits, !.digest = digest]

\* ------------------------------------------------------------- interpreter
\* Interpreter::new: `system` is the list of the namespaces acquired from
\* the constraint system of the interpreter, `scope` the declared variables
InterpreterNew ==
  [id_sequence |-> 0, system |-> <<>>, scope |-> {}, error |-> "None", statements |-> 0]

\* format!("temp_{0:06}", id_sequence)
TempNames == <<"temp_000001", "temp_000002", "temp_000003", "temp_000004",
               "temp_000005", "temp_000006", "temp_000007", "temp_000008",
               "temp_000009", "temp_000010", "temp_000011", "temp_000012",
               "temp_000013", "temp_000014", "temp_000015", "temp_000016">>

\* Interpreter::next_temp_namespace, followed by self.system.namespace
next_temp_namespace(i) ==
  [i EXCEPT !.id_sequence = @ + 1,
            !.system = Append(@, TempNames[i.id_sequence + 1])]

\* Interpreter::evaluate_expression on `literal` (objects = 1) or on
\* `literal operator literal` (objects = 3): one temporary namespace each
RECURSIVE evaluate_expression(_, _)
evaluate_expression(i, objects) ==
  IF objects = 0 THEN i
  ELSE evaluate_expression(next_temp_namespace(i), objects - 1)

\* Scope::declare_variable
declare_variable(i, name) ==
  IF name \in i.scope THEN [i EXCEPT !.error = "RedeclaredItem"]
  ELSE [i EXCEPT !.scope = @ \cup {name}]

\* Interpreter::execute_statement, Statement::Let with an integer value
execute_let(i, name, typed, objects) ==
  LET i1 == evaluate_expression(i, objects)
      i2 == IF typed THEN [i1 EXCEPT !.system = Append(@, name)] ELSE i1
  IN [declare_variable(i2, name) EXCEPT !.statements = @ + 1]

\* Interpreter::execute_statement, Statement::Expression
execute_expression(i, objects) ==
  [evaluate_expression(i, objects) EXCEPT !.statements = @ + 1]

\* ------------------------------------------------------- semantic analyzer
\* Location::new(line, column)
Location_new(line, column) == [line |-> line, column |-> column]

NoLocation == Location_new(0, 0)

\* Identifier::new(location, name)
Identifier_new(location, name) == [location |-> location, name |-> name]

\* semantic Type: Unit, Boolean, IntegerUnsigned, IntegerSigned, Field,
\* Structure, Enumeration, Function
Type_new(kind, bitlength, identifier, unique_id, fields, scope) ==
  [kind |-> kind, bitlength |-> bitlength, identifier |-> identifier,
   unique_id |-> unique_id, fields |-> fields, scope |-> scope]

Type_unit == Type_new("Unit", 0, "", -1, <<>>, 0)

Type_boolean == Type_new("Boolean", 0, "", -1, <<>>, 0)

Type_integer_unsigned(bitlength) == Type_new("IntegerUnsigned", bitlength, "", -1, <<>>, 0)

Type_integer_signed(bitlength) == Type_new("IntegerSigned", bitlength, "", -1, <<>>, 0)

Type_field == Type_new("Field", BITLENGTH_FIELD, "", -1, <<>>, 0)

Type_function(identifier, unique_id) == Type_new("Function", 0, identifier, unique_id, <<>>, 0)

\* impl PartialEq for Structure: equal when the unique_id is equal
Structure_eq(structure, other) == structure.unique_id = other.unique_id

\* scope::Item: Variable | Constant | Static | Type | Module
Item_new(variant, type, value, scope) ==
  [variant |-> variant, type |-> type, value |-> value, scope |-> scope,
   location |-> NoLocation]

NoItem == Item_new("None", Type_unit, 0, 0)

\* Item::is_namespace
is_namespace(item) ==
  IF item.variant = "Variable" THEN FALSE
  ELSE IF item.variant = "Constant" THEN FALSE
  ELSE IF item.variant = "Static" THEN FALSE
  ELSE IF item.variant = "Type" /\ item.type.kind = "Enumeration" THEN FALSE
  ELSE IF item.variant = "Type" THEN TRUE
  ELSE item.variant = "Module"

\* scope::Error: ItemUndeclared, ItemRedeclared, ItemIsNotNamespace, and the
\* other semantic errors, with the value and the type of an overflow
Error_new(kind, location, name, reference) ==
  [kind |-> kind, location |-> location, name |-> name, reference |-> reference,
   value |-> 0, type |-> Type_unit]

NoError == Error_new("None", NoLocation, "", NoLocation)

\* Scope::new(parent): scopes live in an arena, 0 is "no parent"
Scope_new(parent) == [parent |-> parent, items |-> {}]

Entry(name, item) == [name |-> name, item |-> item]

Declared(scope, name) == \E e \in scope.items : e.name = name

ItemOf(scope, name) == (CHOOSE e \in scope.items : e.name = name).item

\* the lookup in one scope, without its parents
Scope_get_item(scopes, id, name) ==
  IF Declared(scopes[id], name) THEN ItemOf(scopes[id], name) ELSE NoItem

\* Scope::resolve_item: the lookup walks the parent links
RECURSIVE Scope_resolve_item(_, _, _)
Scope_resolve_item(scopes, id, name) ==
  IF id = 0 THEN NoItem
  ELSE IF Declared(scopes[id], name) THEN ItemOf(scopes[id], name)
  ELSE Scope_resolve_item(scopes, scopes[id].parent, name)

\* the scope a namespace item opens: a module, a structure, an enumeration
ScopeOf(item) == IF item.variant = "Module" THEN item.scope ELSE item.type.scope

WalksInto(item) ==
  \/ item.variant = "Module"
  \/ item.variant = "Type" /\ item.type.kind \in {"Structure", "Enumeration"}

\* Scope::resolve_path
RECURSIVE Scope_resolve_path(_, _, _, _)
Scope_resolve_path(scopes, id, path, index) ==
  LET identifier == path[index]
      item == IF index = 1 THEN Scope_resolve_item(scopes, id, identifier.name)
              ELSE Scope_get_item(scopes, id, identifier.name)
  IN IF item = NoItem
       THEN [error |-> Error_new("ItemUndeclared", identifier.location,
                                 identifier.name, NoLocation),
             item |-> NoItem]
     ELSE IF index = Len(path) THEN [error |-> NoError, item |-> item]
     ELSE IF WalksInto(item)
       THEN Scope_resolve_path(scopes, ScopeOf(item), path, index + 1)
     ELSE [error |-> Error_new("ItemIsNotNamespace", identifier.location,
                               identifier.name, NoLocation),
           item |-> NoItem]

\* TYPE_INDEX.read().len()
TYPE_INDEX_len(index) == Cardinality(DOMAIN index)

\* TYPE_INDEX.write().insert(unique_id, name)
TYPE_INDEX_insert(index, unique_id, name) ==
  [k \in DOMAIN index \cup {unique_id} |-> IF k = unique_id THEN name ELSE index[k]]

\* the type index of a process that has declared nothing
EmptyIndex == [k \in {} |-> ""]

\* the local variables of Analyzer::fn that live across the analysis of the
\* function body
NoFunction == [name |-> "", unique_id |-> -1]

\* Analyzer::new: the scope stack over the module scope (scope 1 of the
\* arena), the modules that `mod` may declare, and the type index of the
\* process
Analyzer_new(scopes, dependencies, index) ==
  [scopes |-> scopes,
   scope_stack |-> <<1>>,
   dependencies |-> dependencies,
   TYPE_INDEX |-> index,
   function |-> NoFunction,
   generated |-> <<>>,
   resolved |-> NoItem,
   error |-> NoError]

Failed(a, error) == [a EXCEPT !.error = error]

\* ScopeStack::top, push, push_scope, pop
ScopeStack_top(a) == a.scope_stack[Len(a.scope_stack)]

ScopeStack_push(a) ==
  [a EXCEPT !.scopes = Append(@, Scope_new(ScopeStack_top(a))),
            !.scope_stack = Append(@, Len(a.scopes) + 1)]

ScopeStack_push_scope(a, scope) == [a EXCEPT !.scope_stack = Append(@, scope)]

ScopeStack_pop(a) ==
  [a EXCEPT !.scope_stack = SubSeq(@, 1, Len(@) - 1)]

\* Scope::declare_item: the name must not resolve from the scope
Scope_declare_item(a, scope, identifier, item) ==
  LET earlier == Scope_resolve_item(a.scopes, scope, identifier.name)
  IN IF earlier # NoItem
       THEN Failed(a, Error_new("ItemRedeclared", identifier.location,
                                identifier.name, earlier.location))
     ELSE [a EXCEPT !.scopes[scope].items =
             @ \cup {Entry(identifier.name,
                           [item EXCEPT !.location = identifier.location])}]

\* Scope::declare_variable
Scope_declare_variable(a, scope, identifier, type) ==
  Scope_declare_item(a, scope, identifier, Item_new("Variable", type, 0, 0))

\* Scope::declare_constant
Scope_declare_constant(a, scope, identifier, constant) ==
  Scope_declare_item(a, scope, identifier,
                     Item_new("Constant", constant.type, constant.value, 0))

\* Scope::declare_type
Scope_declare_type(a, scope, identifier, type) ==
  Scope_declare_item(a, scope, identifier, Item_new("Type", type, 0, 0))

\* Scope::declare_module
Scope_declare_module(a, scope, identifier, module) ==
  Scope_declare_item(a, scope, identifier, Item_new("Module", Type_unit, 0, module))

\* Scope::declare_self: the item `Self` of an implementation scope
Scope_declare_self(scope, type) ==
  [scope EXCEPT !.items = @ \cup {Entry("Self", Item_new("Type", type, 0, 0))}]

\* ------------------------------------------------------ integer constants
IsInteger(type) == type.kind \in {"IntegerUnsigned", "IntegerSigned", "Field"}

\* the values a type of the given signedness and bitlength represents
Integer_fits(value, type) ==
  IF type.kind = "IntegerUnsigned" THEN value >= 0 /\ value < 2 ^ type.bitlength
  ELSE IF type.kind = "IntegerSigned"
    THEN value >= -(2 ^ (type.bitlength - 1)) /\ value < 2 ^ (type.bitlength - 1)
  ELSE type.kind = "Field" /\ value >= 0

Constant_new(type, value) == [type |-> type, value |-> value]

\* an integer literal takes the smallest unsigned type that holds it
Integer_literal(value) ==
  Constant_new(Type_integer_unsigned(IF value < 2 ^ BITLENGTH_BYTE
                                       THEN BITLENGTH_BYTE
                                       ELSE 2 * BITLENGTH_BYTE),
               value)

Folded(constant) == [error |-> NoError, constant |-> constant]

NotFolded(error) == [error |-> error, constant |-> Constant_new(Type_unit, 0)]

Overflow(kind, value, type) ==
  [Error_new(kind, NoLocation, "", NoLocation) EXCEPT !.value = value, !.type = type]

\* the checked result of an integer operator
Integer_checked(kind, value, type) ==
  IF Integer_fits(value, type) THEN Folded(Constant_new(type, value))
  ELSE NotFolded(Overflow(kind, value, type))

\* constant::Integer add, subtract, multiply: operands of one type
Integer_add(left, right) ==
  IF left.type # right.type
    THEN NotFolded(Error_new("OperatorAdditionTypesMismatch", NoLocation, "", NoLocation))
  ELSE Integer_checked("OverflowAddition", left.value + right.value, left.type)

Integer_subtract(left, right) ==
  IF left.type # right.type
    THEN NotFolded(Error_new("OperatorSubtractionTypesMismatch", NoLocation, "", NoLocation))
  ELSE Integer_checked("OverflowSubtraction", left.value - right.value, left.type)

Integer_multiply(left, right) ==
  IF left.type # right.type
    THEN NotFolded(Error_new("OperatorMultiplicationTypesMismatch", NoLocation, "", NoLocation))
  ELSE Integer_checked("OverflowMultiplication", left.value * right.value, left.type)

\* constant::Integer negate: the result is signed
Integer_negate(operand) ==
  Integer_checked("OverflowNegation", -operand.value,
                  Type_integer_signed(operand.type.bitlength))

\* Caster::validate: integer to integer of a greater or equal bitlength
Caster_validate(from, to) ==
  IF ~IsInteger(from) THEN "CastingFromInvalidType"
  ELSE IF ~IsInteger(to) THEN "CastingToInvalidType"
  ELSE IF to.bitlength < from.bitlength THEN "CastingToInvalidType"
  ELSE "None"

\* Constant::cast
Constant_cast(constant, to) ==
  LET validated == Caster_validate(constant.type, to)
  IN IF validated # "None"
       THEN NotFolded(Error_new(validated, NoLocation, "", NoLocation))
     ELSE Integer_checked("OverflowCasting", constant.value, to)

\* ExpressionAnalyzer::analyze on a constant expression: a literal, one
\* operator over literals, or a cast of a literal
Expression_new(location, operator, left, right, to) ==
  [location |-> location, operator |-> operator, left |-> left, right |-> right,
   to |-> to]

ExpressionAnalyzer_analyze(expression) ==
  LET left == Integer_literal(expression.left)
      right == Integer_literal(expression.right)
  IN IF expression.operator = "literal" THEN Folded(left)
     ELSE IF expression.operator = "+" THEN Integer_add(left, right)
     ELSE IF expression.operator = "-" THEN Integer_subtract(left, right)
     ELSE IF expression.operator = "*" THEN Integer_multiply(left, right)
     ELSE IF expression.operator = "neg" THEN Integer_negate(left)
     ELSE Constant_cast(left, expression.to)

\* ------------------------------------------------------------- statements
\* Structure::new with the scope of the pre-0.1.5 compiler: no scope of its
\* own, the implementation goes to the parent scope
Structure_new_in_parent_scope(scopes, identifier, unique_id, fields, scope_parent) ==
  [scopes |-> scopes,
   type |-> Type_new("Structure", 0, identifier, unique_id, fields, scope_parent)]

\* Structure::new: a new implementation scope under scope_parent, with `Self`
Structure_new(scopes, identifier, unique_id, fields, scope_parent) ==
  LET scope == Len(scopes) + 1
      structure == Type_new("Structure", 0, identifier, unique_id, fields, scope)
  IN [scopes |-> Append(scopes, Scope_declare_self(Scope_new(scope_parent), structure)),
      type |-> structure]

\* Type::enumeration: a new scope under scope_parent that holds the variants
\* as constants of the enumeration type
Type_enumeration(scopes, identifier, unique_id, variants, scope_parent) ==
  LET scope == Len(scopes) + 1
      enumeration == Type_new("Enumeration", BITLENGTH_BYTE, identifier.name,
                              unique_id, variants, scope)
      items == {Entry(variants[i],
                      [Item_new("Constant", enumeration, i, 0)
                         EXCEPT !.location = identifier.location])
                  : i \in 1..Len(variants)}
  IN [scopes |-> Append(scopes,
                        Scope_declare_self([Scope_new(scope_parent)
                                              EXCEPT !.items = items],
                                           enumeration)),
      type |-> enumeration]

HasDuplicate(fields) ==
  \E i, j \in 1..Len(fields) : i < j /\ fields[i] = fields[j]

\* Analyzer::struct from the write of the type index on, with the unique_id
\* that was read before
Analyzer_struct_insert(a, identifier, fields, unique_id) ==
  LET new == Structure_new(a.scopes, identifier.name, unique_id, fields,
                           ScopeStack_top(a))
      a1 == [a EXCEPT !.scopes = new.scopes,
                      !.TYPE_INDEX = TYPE_INDEX_insert(@, unique_id, identifier.name)]
  IN Scope_declare_type(a1, ScopeStack_top(a1), identifier, new.type)

\* Analyzer::struct
Analyzer_struct(a, identifier, fields) ==
  IF HasDuplicate(fields)
    THEN Failed(a, Error_new("DuplicateField", identifier.location,
                             identifier.name, NoLocation))
  ELSE Analyzer_struct_insert(a, identifier, fields, TYPE_INDEX_len(a.TYPE_INDEX))

\* Analyzer::enum from the write of the type index on
Analyzer_enum_insert(a, identifier, variants, unique_id) ==
  LET new == Type_enumeration(a.scopes, identifier, unique_id, variants,
                              ScopeStack_top(a))
      a1 == [a EXCEPT !.scopes = new.scopes,
                      !.TYPE_INDEX = TYPE_INDEX_insert(@, unique_id, identifier.name)]
  IN Scope_declare_type(a1, ScopeStack_top(a1), identifier, new.type)

\* Analyzer::enum
Analyzer_enum(a, identifier, variants) ==
  Analyzer_enum_insert(a, identifier, variants, TYPE_INDEX_len(a.TYPE_INDEX))

\* the arguments of Analyzer::fn, declared one by one in the function scope
RECURSIVE DeclareArguments(_, _, _)
DeclareArguments(a, arguments, i) ==
  IF i > Len(arguments) \/ a.error # NoError THEN a
  ELSE DeclareArguments(
         Scope_declare_variable(a, ScopeStack_top(a), arguments[i],
                                Type_integer_unsigned(BITLENGTH_BYTE)),
         arguments, i + 1)

\* Analyzer::fn up to the analysis of the body: the unique_id is the length
\* of the type index, the function type is declared in the current scope,
\* the function scope is pushed and the arguments are declared in it
Analyzer_fn_insert(a, identifier, arguments, unique_id) ==
  LET type == Type_function(identifier.name, unique_id)
      a1 == [a EXCEPT !.TYPE_INDEX = TYPE_INDEX_insert(@, unique_id, identifier.name)]
      a2 == Scope_declare_type(a1, ScopeStack_top(a1), identifier, type)
  IN IF a2.error # NoError THEN a2
     ELSE DeclareArguments(
            [ScopeStack_push(a2) EXCEPT
               !.function = [name |-> identifier.name, unique_id |-> unique_id]],
            arguments, 1)

Analyzer_fn_begin(a, identifier, arguments) ==
  Analyzer_fn_insert(a, identifier, arguments, TYPE_INDEX_len(a.TYPE_INDEX))

\* Analyzer::fn that leaves the function scope on the scope stack
Analyzer_fn_end_keeping_scope(a) ==
  [a EXCEPT !.generated = Append(@, a.function), !.function = NoFunction]

\* Analyzer::fn after the analysis of the body: the function scope is popped
\* and the function goes to the generator with its unique_id
Analyzer_fn_end(a) ==
  [ScopeStack_pop(a) EXCEPT !.generated = Append(@, a.function),
                            !.function = NoFunction]

\* Analyzer::fn of a function with an empty body
Analyzer_fn(a, identifier, arguments) ==
  LET a1 == Analyzer_fn_begin(a, identifier, arguments)
  IN IF a1.error # NoError THEN a1 ELSE Analyzer_fn_end(a1)

\* the statements of an `impl` block, through Analyzer::local_impl
RECURSIVE ImplStatements(_, _, _)
ImplStatements(a, statements, i) ==
  IF i > Len(statements) \/ a.error # NoError THEN a
  ELSE ImplStatements(Analyzer_fn(a, statements[i], <<>>), statements, i + 1)

\* Analyzer::impl
Analyzer_impl(a, identifier, statements) ==
  LET item == Scope_resolve_item(a.scopes, ScopeStack_top(a), identifier.name)
  IN IF item = NoItem
       THEN Failed(a, Error_new("ItemUndeclared", identifier.location,
                                identifier.name, NoLocation))
     ELSE IF ~(item.variant = "Type" /\ item.type.kind \in {"Structure", "Enumeration"})
       THEN Failed(a, Error_new("ImplStatementExpectedStructureOrEnumeration",
                                identifier.location, identifier.name, NoLocation))
     ELSE LET a1 == ImplStatements(ScopeStack_push_scope(a, item.type.scope),
                                   statements, 1)
          IN IF a1.error # NoError THEN a1 ELSE ScopeStack_pop(a1)

\* Analyzer::let that drops the result of Scope::declare_variable
Analyzer_let_unchecked(a, identifier) ==
  LET a1 == Scope_declare_variable(a, ScopeStack_top(a), identifier,
                                   Type_integer_unsigned(BITLENGTH_BYTE))
  IN IF a1.error # NoError THEN a ELSE a1

\* Analyzer::let of an integer literal without a type
Analyzer_let(a, identifier) ==
  Scope_declare_variable(a, ScopeStack_top(a), identifier,
                         Type_integer_unsigned(BITLENGTH_BYTE))

\* Analyzer::const with a cast that truncates to the bitlength of the type
\* instead of checking
Analyzer_const_truncating(a, statement) ==
  LET element == ExpressionAnalyzer_analyze(statement.expression)
  IN IF element.error # NoError
       THEN Failed(a, [element.error EXCEPT !.location = statement.expression.location])
     ELSE Scope_declare_constant(
            a, ScopeStack_top(a), statement.identifier,
            Constant_new(statement.type,
                         element.constant.value % (2 ^ statement.type.bitlength)))

\* Analyzer::const: the expression is folded, the constant is cast to the
\* declared type and only then declared
Analyzer_const(a, statement) ==
  LET element == ExpressionAnalyzer_analyze(statement.expression)
      constant == Constant_cast(element.constant, statement.type)
  IN IF element.error # NoError
       THEN Failed(a, [element.error EXCEPT !.location = statement.expression.location])
     ELSE IF constant.error # NoError
       THEN Failed(a, [constant.error EXCEPT !.location = statement.type_location])
     ELSE Scope_declare_constant(a, ScopeStack_top(a), statement.identifier,
                                 constant.constant)

\* a ConstStatement
ConstStatement_new(identifier, type_location, type, expression) ==
  [identifier |-> identifier, type_location |-> type_location, type |-> type,
   expression |-> expression]

\* Analyzer::mod
Analyzer_mod(a, identifier) ==
  IF identifier.name \notin DOMAIN a.dependencies
    THEN Failed(a, Error_new("ModuleNotFound", identifier.location,
                             identifier.name, NoLocation))
  ELSE Scope_declare_module(
         [a EXCEPT !.dependencies =
            [n \in DOMAIN a.dependencies \ {identifier.name} |-> a.dependencies[n]]],
         ScopeStack_top(a), identifier, a.dependencies[identifier.name])

\* BlockAnalyzer::analyze, entering and leaving the block
BlockAnalyzer_begin(a) == ScopeStack_push(a)

BlockAnalyzer_end(a) == ScopeStack_pop(a)

\* ExpressionAnalyzer::analyze of a path expression, through
\* Scope::resolve_path from the current scope
Analyzer_resolve(a, path) ==
  LET result == Scope_resolve_path(a.scopes, ScopeStack_top(a), path, 1)
  IN [a EXCEPT !.resolved = result.item, !.error = result.error]

\* ----------------------------------------------------------------- values
\* semantic Value: a value known by its type only
Value_of(kind, is_signed, bitlength) ==
  [kind |-> kind, is_signed |-> is_signed, bitlength |-> bitlength]

\* Value::new
Value_new(type) ==
  IF type.kind = "Unit" THEN Value_of("Unit", FALSE, 0)
  ELSE IF type.kind = "Boolean" THEN Value_of("Boolean", FALSE, 0)
  ELSE IF type.kind = "IntegerUnsigned" THEN Value_of("Integer", FALSE, type.bitlength)
  ELSE IF type.kind = "IntegerSigned" THEN Value_of("Integer", TRUE, type.bitlength)
  ELSE IF type.kind = "Field" THEN Value_of("Integer", FALSE, BITLENGTH_FIELD)
  ELSE IF type.kind = "Enumeration" THEN Value_of("Integer", FALSE, type.bitlength)
  ELSE Value_of(type.kind, FALSE, 0)

\* Value::type
Value_type(value) ==
  IF value.kind = "Unit" THEN Type_unit
  ELSE IF value.kind = "Boolean" THEN Type_boolean
  ELSE IF value.kind = "Integer"
    THEN IF value.bitlength = BITLENGTH_FIELD THEN Type_field
         ELSE IF value.is_signed THEN Type_integer_signed(value.bitlength)
         ELSE Type_integer_unsigned(value.bitlength)
  ELSE Type_new(value.kind, 0, "", -1, <<>>, 0)

Cast_result(error, value, some, is_signed, bitlength) ==
  [error |-> error, value |-> value, some |-> some, is_signed |-> is_signed,
   bitlength |-> bitlength]

\* value::Integer::cast
ValueInteger_cast(value, is_signed, bitlength) ==
  [value EXCEPT !.is_signed = is_signed, !.bitlength = bitlength]

\* Value::cast without Caster::validate
Value_cast_unvalidated(value, to) ==
  IF ~IsInteger(to) THEN Cast_result("None", value, FALSE, FALSE, 0)
  ELSE LET is_signed == to.kind = "IntegerSigned"
       IN Cast_result("None",
                      IF value.kind = "Integer"
                        THEN ValueInteger_cast(value, is_signed, to.bitlength)
                        ELSE value,
                      TRUE, is_signed, to.bitlength)

\* Value::cast
Value_cast(value, to) ==
  LET from == Value_type(value)
      validated == Caster_validate(from, to)
  IN IF validated # "None" THEN Cast_result(validated, value, FALSE, FALSE, 0)
     ELSE IF ~IsInteger(to) THEN Cast_result("None", value, FALSE, FALSE, 0)
     ELSE LET is_signed == to.kind = "IntegerSigned"
          IN Cast_result("None",
                         IF value.kind = "Integer"
                           THEN ValueInteger_cast(value, is_signed, to.bitlength)
                           ELSE value,
                         TRUE, is_signed, to.bitlength)

\* ------------------------------------------------------------ conditionals
\* a block with the type and the value of its result
Block_new(location, type, value) == [location |-> location, type |-> type, value |-> value]

\* a ConditionalExpression: `else_kind` is "none", "block" or "if"
Conditional_new(location, condition, main_block, else_kind, else_block, else_if) ==
  [location |-> location, condition |-> condition, main_block |-> main_block,
   else_kind |-> else_kind, else_block |-> else_block, else_if |-> else_if]

Analyzed(error, type) == [error |-> error, type |-> type]

TypesMismatch(location, reference) ==
  Error_new("ConditionalBranchTypesMismatch", location, "", reference)

\* the conditional expression analyzer
RECURSIVE ConditionalAnalyzer_analyze(_)
ConditionalAnalyzer_analyze(conditional) ==
  IF conditional.condition.type # Type_boolean
    THEN Analyzed(Error_new("ConditionalExpectedBooleanCondition",
                            conditional.condition.location, "", NoLocation),
                  Type_unit)
  ELSE
    LET else_result ==
          IF conditional.else_kind = "if"
            THEN ConditionalAnalyzer_analyze(conditional.else_if)
          ELSE IF conditional.else_kind = "block"
            THEN Analyzed(NoError, conditional.else_block.type)
          ELSE Analyzed(NoError, Type_unit)
        reference ==
          IF conditional.else_kind = "if" THEN conditional.else_if.main_block.location
          ELSE IF conditional.else_kind = "block" THEN conditional.else_block.location
          ELSE conditional.location
    IN IF else_result.error # NoError THEN else_result
       ELSE IF conditional.main_block.type # else_result.type
         THEN Analyzed(TypesMismatch(conditional.main_block.location, reference),
                       Type_unit)
       ELSE Analyzed(NoError, conditional.main_block.type)

Evaluated(error, location, type, value) ==
  [error |-> error, location |-> location, type |-> type, value |-> value]

\* Interpreter::evaluate_conditional_expression where a missing `else`
\* takes the type of the main block
RECURSIVE evaluate_conditional_expression_else_as_main(_)
evaluate_conditional_expression_else_as_main(conditional) ==
  IF conditional.condition.type # Type_boolean
    THEN Evaluated("ConditionalExpectedBooleanExpression", conditional.location,
                   Type_unit, 0)
  ELSE
    LET main_result == Evaluated("None", NoLocation, conditional.main_block.type,
                                 conditional.main_block.value)
        else_result ==
          IF conditional.else_kind = "if"
            THEN evaluate_conditional_expression_else_as_main(conditional.else_if)
          ELSE IF conditional.else_kind = "block"
            THEN Evaluated("None", NoLocation, conditional.else_block.type,
                           conditional.else_block.value)
          ELSE main_result
    IN IF else_result.error # "None" THEN else_result
       ELSE IF main_result.type # else_result.type
         THEN Evaluated("ConditionalBranchTypeMismatch", conditional.location,
                        Type_unit, 0)
       ELSE IF conditional.condition.value = 1 THEN main_result
       ELSE else_result

\* Interpreter::evaluate_conditional_expression
RECURSIVE evaluate_conditional_expression(_)
evaluate_conditional_expression(conditional) ==
  IF conditional.condition.type # Type_boolean
    THEN Evaluated("ConditionalExpectedBooleanExpression", conditional.location,
                   Type_unit, 0)
  ELSE
    LET main_result == Evaluated("None", NoLocation, conditional.main_block.type,
                                 conditional.main_block.value)
        else_result ==
          IF conditional.else_kind = "if"
            THEN evaluate_conditional_expression(conditional.else_if)
          ELSE IF conditional.else_kind = "block"
            THEN Evaluated("None", NoLocation, conditional.else_block.type,
                           conditional.else_block.value)
          ELSE Evaluated("None", NoLocation, Type_unit, 0)
    IN IF else_result.error # "None" THEN else_result
       ELSE IF main_result.type # else_result.type
         THEN Evaluated("ConditionalBranchTypeMismatch", conditional.location,
                        Type_unit, 0)
       ELSE IF conditional.condition.value = 1 THEN main_result
       ELSE else_result

\* ------------------------------------------------------------------ zrustm
\* the stack machine of zrustm: the stack and the stack address at which
\* each open frame began
Zrustm_new == [stack |-> <<>>, frames |-> <<>>, error |-> "None"]

Zrustm_push(machine, value) == [machine EXCEPT !.stack = Append(@, value)]

\* VirtualMachine::frame_push
frame_push(machine) == [machine EXCEPT !.frames = Append(@, Len(machine.stack))]

\* VirtualMachine::frame_pop
frame_pop(machine, outputs_count) ==
  IF machine.frames = <<>> THEN [machine EXCEPT !.error = "MalformedBytecode"]
  ELSE
    LET begin == machine.frames[Len(machine.frames)]
        length == Len(machine.stack)
    IN IF length - begin < outputs_count
         THEN [machine EXCEPT !.error = "MalformedBytecode"]
       ELSE [machine EXCEPT
               !.stack = SubSeq(@, 1, begin)
                         \o SubSeq(@, length - outputs_count + 1, length),
               !.frames = SubSeq(@, 1, Len(@) - 1)]

\* FrameBegin::execute
FrameBegin_execute(machine) == frame_push(machine)

\* FrameEnd::execute that passes no outputs
FrameEnd_execute_without_outputs(machine, outputs_count) == frame_pop(machine, 0)

\* FrameEnd::execute
FrameEnd_execute(machine, outputs_count) == frame_pop(machine, outputs_count)

\* ------------------------------------------------------- instruction record
Instruction(op, value, type, index, message) ==
  [op |-> op, value |-> value, type |-> type, index |-> index, message |-> message]

Blank == Const(0, "field")

\* what the last instruction read: the selector, its operands (x is the top
\* of the evaluation stack, y the one beneath), the slot it addressed, the
\* number of open branches and whether the innermost one was in its else arm
Observed(sel, x, y, old) ==
  [sel |-> sel, x |-> x, y |-> y, old |-> old,
   open |-> Len(arms), in_else |-> arms # <<>> /\ Last(arms).had_else]

NoObs == Observed(1, Blank, Blank, Blank)

StartObs == [sel |-> 1, x |-> Blank, y |-> Blank, old |-> Blank, open |-> 0, in_else |-> FALSE]

Values(q) == [i \in 1..Len(q) |-> q[i].v]

Unset == [set |-> FALSE, v |-> 0]

NoWrites == <<Unset, Unset>>

NoBranch ==
  [valid |-> FALSE, b |-> 0, outer |-> 1, had_else |-> FALSE, nested |-> FALSE,
   base |-> 0, then_vals |-> <<>>, else_vals |-> <<>>,
   before |-> <<>>, w_then |-> NoWrites, w_else |-> NoWrites]

\* ------------------------------------------------------ one compilation
\* The statements of one module reach the analyzer one by one; `last` keeps
\* the statement that was analyzed last, the analyzer before it, and what
\* the source text declares: the identifiers of every open block (the
\* module first), the methods of every structure and the variants of every
\* enumeration.
NoMembers == [n \in {} |-> {}]

Statement(op, identifier, path, statements, line, lexical, members, variants, before) ==
  [op |-> op, identifier |-> identifier, path |-> path, statements |-> statements,
   line |-> line, lexical |-> lexical, lexical0 |-> before.lexical,
   members |-> members, members0 |-> before.members,
   variants |-> variants, before |-> before.analyzer]

NoStatement ==
  [op |-> "Start", identifier |-> Identifier_new(NoLocation, ""), path |-> <<>>,
   statements |-> <<>>, line |-> 0, lexical |-> <<{}>>, lexical0 |-> <<{}>>,
   members |-> NoMembers, members0 |-> NoMembers, variants |-> NoMembers,
   before |-> 0]

\* a dependency: a module that holds the constant `a`
DependencyScope ==
  [Scope_new(0) EXCEPT !.items =
     {Entry("a", Item_new("Constant", Type_integer_unsigned(BITLENGTH_BYTE), 42, 0))}]

Dependencies == [b |-> 2]

NoProcess == [TYPE_INDEX |-> EmptyIndex, analyzers |-> <<>>]

NoCompilation ==
  [source |-> <<>>, started |-> FALSE, position |-> 0, inherited |-> 0,
   outputs |-> <<>>]

IdleCompiler ==
  /\ analyzer = Analyzer_new(<<Scope_new(0)>>, NoMembers, EmptyIndex)
  /\ last = NoStatement
  /\ process = NoProcess
  /\ compilation = NoCompilation
  /\ zrustm = Zrustm_new

\* ----------------------------------------------------------------- the runs
Init ==
  /\ \E a \in InputInts, c \in {0, 1} :
       /\ vm = InitState(TRUE, a, c)
       /\ setup = InitState(FALSE, a, c)
  /\ instr = Instruction("Start", 0, "", 0, "")
  /\ obs = StartObs
  /\ steps = 0
  /\ arms = <<>>
  /\ closed = NoBranch
  /\ finished = FALSE
  /\ blake = BlakeState(0, <<>>)
  /\ interp = InterpreterNew
  /\ IdleCompiler

Running == vm.error = "None" /\ ~finished /\ steps < MaxSteps

\* the branch records are dropped with the execution state
KeepGhost ==
  IF vm'.error = "None" THEN UNCHANGED <<arms, closed>>
  ELSE arms' = <<>> /\ closed' = NoBranch

\* the part of a step that every instruction shares
Common(i, o) ==
  /\ instr' = i
  /\ obs' = o
  /\ steps' = steps + 1
  /\ finished' = (i.op = "End")
  /\ UNCHANGED <<blake, interp, compilerVars>>

TopOr(s, k) ==
  IF Len(Top(s)) >= k THEN Top(s)[Len(Top(s)) - k + 1] ELSE Blank

ExecPush ==
  /\ Running /\ Len(Top(vm)) < MaxStack
  /\ \E type \in {"bool", "i8"} :
       \E value \in (IF type = "bool" THEN {0, 1} ELSE PushInts) :
         /\ vm' = Push_execute(vm, value, type)
         /\ setup' = Push_execute(setup, value, type)
         /\ Common(Instruction("Push", value, type, 0, ""), NoObs)
  /\ UNCHANGED <<arms, closed>>

ExecLoad ==
  /\ Running /\ Len(Top(vm)) < MaxStack
  /\ \E index \in 1..Len(vm.data_stack) :
       /\ vm' = Load_execute(vm, index)
       /\ setup' = Load_execute(setup, index)
       /\ Common(Instruction("Load", 0, "", index, ""), NoObs)
  /\ UNCHANGED <<arms, closed>>

\* the record of a store in the arm of the innermost open branch
NoteWrite(index, v) ==
  IF arms = <<>> THEN arms
  ELSE [arms EXCEPT ![Len(arms)] =
          IF @.had_else
          THEN [@ EXCEPT !.w_else[index] = [set |-> TRUE, v |-> v]]
          ELSE [@ EXCEPT !.w_then[index] = [set |-> TRUE, v |-> v]]]

ExecStore ==
  /\ Running
  /\ \E index \in 1..Len(vm.data_stack) :
       /\ vm' = Store_execute(vm, index)
       /\ setup' = Store_execute(setup, index)
       /\ Common(Instruction("Store", 0, "", index, ""),
                 Observed(condition_top(vm).v, TopOr(vm, 1), Blank, vm.data_stack[index]))
       /\ arms' = IF vm'.error = "None" THEN NoteWrite(index, TopOr(vm, 1).v) ELSE <<>>
  /\ closed' = IF vm'.error = "None" THEN closed ELSE NoBranch

ExecAdd ==
  /\ Running
  /\ vm' = Add_execute(vm)
  /\ setup' = Add_execute(setup)
  /\ Common(Instruction("Add", 0, "", 0, ""),
            Observed(condition_top(vm).v, TopOr(vm, 1), TopOr(vm, 2), Blank))
  /\ KeepGhost

ExecGt ==
  /\ Running
  /\ vm' = Gt_execute(vm)
  /\ setup' = Gt_execute(setup)
  /\ Common(Instruction("Gt", 0, "", 0, ""),
            Observed(condition_top(vm).v, TopOr(vm, 1), TopOr(vm, 2), Blank))
  /\ KeepGhost

ExecAssert ==
  /\ Running
  /\ \E message \in Messages :
       /\ vm' = Assert_execute(vm, message)
       /\ setup' = Assert_execute(setup, message)
       /\ Common(Instruction("Assert", 0, "", 0, message),
                 Observed(condition_top(vm).v, TopOr(vm, 1), Blank, Blank))
  /\ KeepGhost

ExecIf ==
  /\ Running /\ Len(vm.blocks) < MaxNesting
  /\ vm' = If_execute(vm)
  /\ setup' = If_execute(setup)
  /\ Common(Instruction("If", 0, "", 0, ""),
            Observed(condition_top(vm).v, TopOr(vm, 1), Blank, Blank))
  /\ arms' = IF vm'.error # "None" THEN <<>>
             ELSE Append([i \in 1..Len(arms) |-> [arms[i] EXCEPT !.nested = TRUE]],
                         [NoBranch EXCEPT !.valid = TRUE,
                                          !.b = TopOr(vm, 1).v,
                                          !.outer = condition_top(vm).v,
                                          !.base = Depth(vm) - 1,
                                          !.before = Values(vm.data_stack)])
  /\ closed' = IF vm'.error = "None" THEN closed ELSE NoBranch

ExecElse ==
  /\ Running
  /\ vm' = Else_execute(vm)
  /\ setup' = Else_execute(setup)
  /\ Common(Instruction("Else", 0, "", 0, ""), NoObs)
  /\ arms' = IF vm'.error # "None" THEN <<>>
             ELSE IF arms = <<>> THEN arms
             ELSE [arms EXCEPT ![Len(arms)] =
                     [@ EXCEPT !.had_else = TRUE,
                               !.then_vals = Values(SubSeq(Flat(vm.evaluation_stack),
                                                           Last(arms).base + 1, Depth(vm)))]]
  /\ closed' = IF vm'.error = "None" THEN closed ELSE NoBranch

ExecEndIf ==
  /\ Running
  /\ vm' = EndIf_execute(vm)
  /\ setup' = EndIf_execute(setup)
  /\ Common(Instruction("EndIf", 0, "", 0, ""), NoObs)
  /\ IF vm'.error # "None" THEN arms' = <<>> /\ closed' = NoBranch
     ELSE IF arms = <<>> THEN UNCHANGED <<arms, closed>>
     ELSE /\ arms' = Front(arms)
          /\ closed' = [Last(arms) EXCEPT
                          !.else_vals =
                             IF Last(arms).had_else
                             THEN Values(SubSeq(Flat(vm.evaluation_stack),
                                                Last(arms).base + Len(Last(arms).then_vals) + 1,
                                                Depth(vm)))
                             ELSE <<>>]

ExecEnd ==
  /\ Running
  /\ vm' = End_execute(vm)
  /\ setup' = End_execute(setup)
  /\ Common(Instruction("End", 0, "", 0, ""), NoObs)
  /\ KeepGhost

Next ==
  \/ ExecPush
  \/ ExecLoad
  \/ ExecStore
  \/ ExecAdd
  \/ ExecGt
  \/ ExecAssert
  \/ ExecIf
  \/ ExecElse
  \/ ExecEndIf
  \/ ExecEnd

Spec == Init /\ [][Next]_vars

\* ================================================================== claims
ArmChosen(arm) == (arm.b = 1 /\ ~arm.had_else) \/ (arm.b = 0 /\ arm.had_else)

BoolOf(p) == IF p THEN 1 ELSE 0

\* C1: the condition stack starts with the single selector 1; each open
\* branch contributes the selector below it AND its condition (in the then
\* arm) or AND the negated condition (in the else arm), so the top selector
\* is 1 exactly when every open branch is in the arm its condition chose.
C1_SelectorTracksArms ==
  vm.error = "None" =>
    /\ Len(vm.condition_stack) = Len(arms) + 1
    /\ vm.condition_stack[1].v = 1
    /\ \A k \in 1..Len(arms) :
         vm.condition_stack[k + 1].v =
           BoolOf(vm.condition_stack[k].v = 1 /\ ArmChosen(arms[k]))
    /\ (condition_top(vm).v = 1 <=> \A k \in 1..Len(arms) : ArmChosen(arms[k]))

\* inside the else arm of an outer branch whose condition was false, and
\* inside the then arm of an inner branch whose condition was true
C1_Witness ==
  /\ vm.error = "None"
  /\ Len(arms) = 2
  /\ arms[1].had_else /\ arms[1].b = 0
  /\ ~arms[2].had_else /\ arms[2].b = 1
  /\ condition_top(vm).v = 1

Slots == 1..2

ExpectedAfterBranch(br, i) ==
  IF br.outer = 0 THEN br.before[i]
  ELSE IF br.b = 1
       THEN (IF br.w_then[i].set THEN br.w_then[i].v ELSE br.before[i])
       ELSE (IF br.w_else[i].set THEN br.w_else[i].v ELSE br.before[i])

\* C2: a Store under selector s leaves the computed value in the slot when
\* s = 1 and the previous value when s = 0; after If ... Else ... EndIf every
\* slot holds the value stored by the arm the condition selected (or its value
\* from before the branch when that arm stored nothing into it).
C2_StoreMasked ==
  /\ (instr.op = "Store" /\ vm.error = "None") =>
       vm.data_stack[instr.index].v = (IF obs.sel = 1 THEN obs.x.v ELSE obs.old.v)
  /\ (instr.op = "EndIf" /\ vm.error = "None" /\ closed.valid /\ ~closed.nested) =>
       \A i \in Slots : vm.data_stack[i].v = ExpectedAfterBranch(closed, i)

\* the then arm stored into slot 1, the condition was false: the slot keeps
\* the value it had before the branch
C2_Witness ==
  /\ instr.op = "EndIf" /\ vm.error = "None"
  /\ closed.valid /\ closed.had_else /\ ~closed.nested /\ closed.outer = 1
  /\ closed.b = 0
  /\ closed.w_then[1].set /\ ~closed.w_else[1].set
  /\ closed.w_then[1].v # closed.before[1]
  /\ vm.data_stack[1].v = closed.before[1]

HasOp(ops, name) == \E i \in 1..Len(ops) : ops[i].name = name

\* C3: an Assert executed under selector 0 never fails with AssertionError,
\* whatever boolean it pops; its constraint is enforced and satisfied and the
\* execution goes on.
C3_AssertSuppressed ==
  (instr.op = "Assert" /\ obs.sel = 0 /\ obs.x.t = "bool") =>
    /\ vm.error = "None"
    /\ HasOp(vm.cs, "assertion")
    /\ AllSat(vm.cs)

\* a false value asserted at nesting depth two, in an arm that is not taken
C3_Witness ==
  /\ instr.op = "Assert" /\ obs.sel = 0
  /\ obs.x.t = "bool" /\ obs.x.v = 0
  /\ Len(arms) = 2
  /\ vm.error = "None"

\* C4: an Assert executed under selector 1 that pops the value 0 returns
\* AssertionError with the message of the instruction ("<no message>" when it
\* has none), before the inverse is allocated and the constraint enforced.
C4_AssertFails ==
  (instr.op = "Assert" /\ obs.sel = 1 /\ obs.x.t = "bool" /\ obs.x.v = 0) =>
    /\ vm.error = "AssertionError"
    /\ vm.message = (IF instr.message = "" THEN "<no message>" ELSE instr.message)
    /\ ~HasOp(vm.cs, "inverse")
    /\ ~HasOp(vm.cs, "assertion")
    /\ AllSat(vm.cs)

\* a zero witness (not a constant) asserted without a message
C4_Witness ==
  /\ instr.op = "Assert" /\ obs.sel = 1
  /\ obs.x.t = "bool" /\ obs.x.v = 0 /\ ~obs.x.c
  /\ instr.message = ""
  /\ vm.error = "AssertionError" /\ vm.message = "<no message>"

\* C5: while the bytecode is balanced the depth of the condition stack is one
\* more than the number of open If, never 0, and 1 when the program ends.
C5_DepthMatchesNesting ==
  vm.error = "None" =>
    /\ Len(vm.condition_stack) = 1 + Len(arms)
    /\ Len(vm.condition_stack) >= 1
    /\ (finished => Len(vm.condition_stack) = 1)

\* a program with a closed If ... Else ... EndIf has ended
C5_Witness ==
  /\ finished /\ vm.error = "None"
  /\ closed.valid /\ closed.had_else
  /\ Len(vm.condition_stack) = 1

C8_ShapeIndependentOfWitness ==
  vm.error = "None" =>
    /\ setup.error = "None"
    /\ Shape(vm.cs) = Shape(setup.cs)
    /\ vm.count = setup.count

\* an Assert on a witness under a witness selector that is 0
C8_Witness ==
  /\ instr.op = "Assert" /\ vm.error = "None"
  /\ ~obs.x.c /\ obs.sel = 0
  /\ Len(vm.cs) >= 6
  /\ vm.count > Len(vm.cs)

TypedInRange(q) == \A i \in 1..Len(q) : q[i].t \in {"bool", "i8"} => InRange(q[i].v, q[i].t)

\* C9: every integer-typed scalar on the evaluation stack and on the data
\* stack is within the range of its type; Add on two I8 operands either
\* fails with an overflow error or leaves their exact sum, typed I8.
C9_IntegersInRange ==
  /\ TypedInRange(Flat(vm.evaluation_stack))
  /\ TypedInRange(vm.data_stack)
  /\ (instr.op = "Add" /\ obs.x.t = "i8" /\ obs.y.t = "i8") =>
       \/ vm.error = "ValueOverflow"
       \/ /\ vm.error = "None"
          /\ Last(Top(vm)).t = "i8"
          /\ InRange(Last(Top(vm)).v, "i8")
          /\ Last(Top(vm)).v = obs.x.v + obs.y.v

\* the sum 127 + 1 does not fit I8
C9_Witness ==
  /\ instr.op = "Add" /\ obs.x.t = "i8" /\ obs.y.t = "i8"
  /\ obs.x.v + obs.y.v > IntMax
  /\ vm.error = "ValueOverflow"

\* -------------------------------------------- library call and interpreter
Bits8(n) == [i \in 1..8 |-> (n \div (2 ^ (8 - i))) % 2]

InitLabels ==
  /\ vm = InitState(TRUE, 0, 0)
  /\ setup = InitState(FALSE, 0, 0)
  /\ instr = Instruction("Start", 0, "", 0, "")
  /\ obs = StartObs
  /\ steps = 0
  /\ arms = <<>>
  /\ closed = NoBranch
  /\ finished = FALSE
  /\ \E message_length \in MessageLengths :
       \E stack \in {<<>>} \cup {Bits8(n) : n \in ByteValues} :
         blake = BlakeState(message_length, stack)
  /\ interp = InterpreterNew
  /\ IdleCompiler

CallBlake2s ==
  /\ blake.error = "None" /\ ~blake.called
  /\ blake' = Blake2s_call(blake)
  /\ UNCHANGED <<vmVars, interp, compilerVars>>

InterpreterRunning == interp.error = "None" /\ interp.statements < MaxStatements

ExecuteLet ==
  /\ InterpreterRunning
  /\ \E name \in Identifiers, typed \in BOOLEAN, objects \in {1, 3} :
       interp' = execute_let(interp, name, typed, objects)
  /\ UNCHANGED <<vmVars, blake, compilerVars>>

ExecuteExpression ==
  /\ InterpreterRunning
  /\ \E objects \in {1, 3} :
       interp' = execute_expression(interp, objects)
  /\ UNCHANGED <<vmVars, blake, compilerVars>>

NextLabels ==
  \/ CallBlake2s
  \/ ExecuteLet
  \/ ExecuteExpression

SpecLabels == InitLabels /\ [][NextLabels]_vars

NoRepeat(q) == \A i, j \in 1..Len(q) : i # j => q[i] # q[j]

\* C10: the labels acquired from one parent namespace are pairwise distinct:
\* those of one Blake2s call (input bits, hash gadget, digest bits) and
\* those of one interpreter (temporary namespaces and `let` identifiers).
C10_LabelsUnique ==
  /\ NoRepeat(blake.labels)
  /\ NoRepeat(interp.system)

\* ------------------------------------------------- the semantic analyzer
IdleMachines ==
  /\ vm = InitState(TRUE, 0, 0)
  /\ setup = InitState(FALSE, 0, 0)
  /\ instr = Instruction("Start", 0, "", 0, "")
  /\ obs = StartObs
  /\ steps = 0
  /\ arms = <<>>
  /\ closed = NoBranch
  /\ finished = FALSE
  /\ blake = BlakeState(0, <<>>)
  /\ interp = InterpreterNew

InitScope ==
  /\ IdleMachines
  /\ analyzer = Analyzer_new(<<Scope_new(0), DependencyScope>>, Dependencies, EmptyIndex)
  /\ last = NoStatement
  /\ process = NoProcess
  /\ compilation = NoCompilation
  /\ zrustm = Zrustm_new

Analyzing == analyzer.error = NoError /\ last.line < MaxLines

InModule == Len(last.lexical) = 1

\* the identifier of the statement at the next line
NextIdentifier(name) == Identifier_new(Location_new(last.line + 1, 1), name)

Names(q) == {q[i].name : i \in 1..Len(q)}

\* what the text declares after a statement that was accepted
Declare(lexical, identifier) ==
  [lexical EXCEPT ![Len(lexical)] = @ \cup {identifier}]

WithMembers(members, name, names) ==
  [n \in DOMAIN members \cup {name} |->
     IF n = name THEN (IF n \in DOMAIN members THEN members[n] ELSE {}) \cup names
     ELSE members[n]]

\* the step of one statement
Analyze(op, identifier, path, statements, a, lexical, members, variants) ==
  /\ analyzer' = a
  /\ last' = Statement(op, identifier, path, statements, last.line + 1,
                       IF a.error = NoError THEN lexical ELSE last.lexical,
                       IF a.error = NoError THEN members ELSE last.members,
                       IF a.error = NoError THEN variants ELSE last.variants,
                       [lexical |-> last.lexical, members |-> last.members,
                        analyzer |-> analyzer])
  /\ UNCHANGED <<vmVars, blake, interp, process, compilation, zrustm>>

StructStatement ==
  /\ Analyzing /\ InModule
  /\ \E name \in {"a", "b"} :
       LET identifier == NextIdentifier(name)
       IN Analyze("struct", identifier, <<>>, <<>>,
                  Analyzer_struct(analyzer, identifier, <<"value">>),
                  Declare(last.lexical, identifier),
                  WithMembers(last.members, name, {}), last.variants)

EnumStatement ==
  /\ Analyzing /\ InModule
  /\ \E name \in {"a", "b"} :
       LET identifier == NextIdentifier(name)
       IN Analyze("enum", identifier, <<>>, <<>>,
                  Analyzer_enum(analyzer, identifier, <<"v">>),
                  Declare(last.lexical, identifier), last.members,
                  WithMembers(last.variants, name, {"v"}))

ConstStatement ==
  /\ Analyzing
  /\ \E name \in {"a", "b"} :
       LET identifier == NextIdentifier(name)
           location == Location_new(last.line + 1, 2)
       IN Analyze("const", identifier, <<>>, <<>>,
                  Analyzer_const(analyzer,
                                 ConstStatement_new(
                                   identifier, location,
                                   Type_integer_unsigned(BITLENGTH_BYTE),
                                   Expression_new(location, "literal", 42, 0, Type_unit))),
                  Declare(last.lexical, identifier), last.members, last.variants)

ModStatement ==
  /\ Analyzing /\ InModule
  /\ \E name \in {"a", "b"} :
       LET identifier == NextIdentifier(name)
       IN Analyze("mod", identifier, <<>>, <<>>,
                  Analyzer_mod(analyzer, identifier),
                  Declare(last.lexical, identifier), last.members, last.variants)

ImplStatement ==
  /\ Analyzing /\ InModule
  /\ \E name \in {"a", "b"}, names \in {<<"f">>, <<"f", "f">>, <<"a">>} :
       LET identifier == NextIdentifier(name)
           statements == [i \in 1..Len(names) |->
                            Identifier_new(Location_new(last.line + 1, 1 + i), names[i])]
       IN Analyze("impl", identifier, <<>>, statements,
                  Analyzer_impl(analyzer, identifier, statements),
                  last.lexical,
                  IF name \in DOMAIN last.members
                    THEN WithMembers(last.members, name, Names(statements))
                    ELSE last.members,
                  IF name \in DOMAIN last.variants
                    THEN WithMembers(last.variants, name, Names(statements))
                    ELSE last.variants)

FnBegin ==
  /\ Analyzing /\ InModule
  /\ \E name \in {"f", "a"}, arguments \in {<<>>, <<"a">>} :
       LET identifier == NextIdentifier(name)
           bindings == [i \in 1..Len(arguments) |->
                          Identifier_new(Location_new(last.line + 1, 1 + i), arguments[i])]
       IN Analyze("fn", identifier, <<>>, bindings,
                  Analyzer_fn_begin(analyzer, identifier, bindings),
                  Append(Declare(last.lexical, identifier),
                         {bindings[i] : i \in 1..Len(bindings)}),
                  last.members, last.variants)

FnEnd ==
  /\ Analyzing /\ Len(last.lexical) = 2
  /\ Analyze("fn end", NextIdentifier(""), <<>>, <<>>,
             Analyzer_fn_end(analyzer), Front(last.lexical), last.members,
             last.variants)

LetStatement ==
  /\ Analyzing /\ ~InModule
  /\ \E name \in {"a", "f"} :
       LET identifier == NextIdentifier(name)
       IN Analyze("let", identifier, <<>>, <<>>,
                  Analyzer_let(analyzer, identifier),
                  Declare(last.lexical, identifier), last.members, last.variants)

BlockBegin ==
  /\ Analyzing /\ ~InModule /\ Len(last.lexical) < MaxBlocks + 2
  /\ Analyze("block", NextIdentifier(""), <<>>, <<>>,
             BlockAnalyzer_begin(analyzer), Append(last.lexical, {}),
             last.members, last.variants)

BlockEnd ==
  /\ Analyzing /\ Len(last.lexical) > 2
  /\ Analyze("block end", NextIdentifier(""), <<>>, <<>>,
             BlockAnalyzer_end(analyzer), Front(last.lexical), last.members,
             last.variants)

ExpressionStatement ==
  /\ Analyzing /\ ~InModule
  /\ \E path \in {<<"a">>, <<"b">>, <<"a", "v">>, <<"a", "w">>, <<"b", "a">>} :
       LET elements == [i \in 1..Len(path) |->
                          Identifier_new(Location_new(last.line + 1, i), path[i])]
       IN Analyze("path", elements[1], elements, <<>>,
                  Analyzer_resolve(analyzer, elements),
                  last.lexical, last.members, last.variants)

NextScope ==
  \/ StructStatement
  \/ EnumStatement
  \/ ConstStatement
  \/ ModStatement
  \/ ImplStatement
  \/ FnBegin
  \/ FnEnd
  \/ LetStatement
  \/ BlockBegin
  \/ BlockEnd
  \/ ExpressionStatement

SpecScope == InitScope /\ [][NextScope]_vars

\* the identifiers the text declares in the open blocks
Visible(lexical) == UNION {lexical[i] : i \in 1..Len(lexical)}

VisibleNames(lexical) == {d.name : d \in Visible(lexical)}

StructureItems ==
  {e \in analyzer.scopes[1].items :
     e.item.variant = "Type" /\ e.item.type.kind = "Structure"}

\* a method of the block is declared twice, or was declared for the
\* structure before, or is an item of the module
MethodClash(methods, taken) ==
  \E i \in 1..Len(methods) :
    \/ methods[i].name \in taken
    \/ \E j \in 1..(i - 1) : methods[j].name = methods[i].name

\* C11: each structure has an implementation scope of its own, shared by
\* all its `impl` blocks: an `impl` block of a structure is rejected with
\* ItemRedeclared exactly when one of its functions was already declared for
\* that structure (in this block or an earlier one) or names an item of the
\* module; functions declared for another structure never matter.
C11_ImplementationScopes ==
  /\ \A e1, e2 \in StructureItems :
       e1.name # e2.name => e1.item.type.scope # e2.item.type.scope
  /\ (last.op = "impl" /\ last.identifier.name \in DOMAIN last.members0) =>
       IF MethodClash(last.statements,
                      last.members0[last.identifier.name]
                        \cup VisibleNames(last.lexical0))
         THEN analyzer.error.kind = "ItemRedeclared"
         ELSE /\ analyzer.error = NoError
              /\ \A i \in 1..Len(last.statements) :
                   \E e \in StructureItems :
                     /\ e.name = last.identifier.name
                     /\ Declared(analyzer.scopes[e.item.type.scope],
                                 last.statements[i].name)

C11_Witness ==
  /\ last.op = "impl"
  /\ analyzer.error = NoError
  /\ \E other \in DOMAIN last.members0 \ {last.identifier.name} :
       last.statements[1].name \in last.members0[other]

\* C12: a `let` of a name that is declared in the current block or in any
\* enclosing one fails with ItemRedeclared located at the new declaration
\* and referring to the earlier one, and changes no scope; a `let` of any
\* other name is accepted.
C12_RedeclarationRejected ==
  last.op = "let" =>
    LET earlier == {d \in Visible(last.lexical0) : d.name = last.identifier.name}
    IN IF earlier # {}
         THEN /\ analyzer.error.kind = "ItemRedeclared"
              /\ analyzer.error.name = last.identifier.name
              /\ analyzer.error.location = last.identifier.location
              /\ \A d \in earlier : analyzer.error.reference = d.location
              /\ analyzer.scopes = last.before.scopes
         ELSE analyzer.error = NoError

C12_Witness ==
  /\ last.op = "let"
  /\ analyzer.error.kind = "ItemRedeclared"
  /\ Len(last.lexical0) = 3
  /\ last.identifier.name \in {d.name : d \in last.lexical0[2]}

\* C13: a name resolves exactly when the text declares it in the current
\* block or an enclosing one, whatever the depth, and otherwise the use
\* fails with ItemUndeclared at its location; a variant that an enumeration
\* does not have fails with ItemUndeclared at the variant identifier.
C13_ResolutionFollowsScopes ==
  /\ (last.op = "path" /\ Len(last.path) = 1) =>
       IF last.path[1].name \in VisibleNames(last.lexical0)
         THEN /\ analyzer.error = NoError
              /\ \E d \in Visible(last.lexical0) :
                   d.name = last.path[1].name /\ analyzer.resolved.location = d.location
         ELSE analyzer.error = Error_new("ItemUndeclared", last.path[1].location,
                                         last.path[1].name, NoLocation)
  /\ (/\ last.op = "path" /\ Len(last.path) = 2
      /\ last.path[1].name \in DOMAIN last.variants
      /\ last.path[2].name \notin last.variants[last.path[1].name]) =>
       analyzer.error = Error_new("ItemUndeclared", last.path[2].location,
                                  last.path[2].name, NoLocation)

C13_Witness ==
  /\ last.op = "path" /\ Len(last.path) = 1
  /\ analyzer.error = NoError
  /\ Len(last.lexical0) = 3
  /\ last.path[1].name \in {d.name : d \in last.lexical0[1]}

AllItems == UNION {analyzer.scopes[i].items : i \in 1..Len(analyzer.scopes)}

IsNamespaceItem(item) ==
  \/ item.variant = "Module"
  \/ item.variant = "Type" /\ item.type.kind \in {"Structure", "Enumeration"}

\* C14: the namespaces are the modules, the structures and the
\* enumerations and no other item, and a path whose prefix is not a
\* namespace fails with ItemIsNotNamespace naming the prefix at its location.
C14_NamespaceItems ==
  /\ \A e \in AllItems : is_namespace(e.item) <=> IsNamespaceItem(e.item)
  /\ (/\ last.op = "path" /\ Len(last.path) = 2
      /\ \E d \in Visible(last.lexical0) :
           /\ d.name = last.path[1].name
           /\ d.name \notin DOMAIN last.members0 \cup DOMAIN last.variants
           /\ ~IsNamespaceItem(Scope_resolve_item(last.before.scopes, 1, d.name))) =>
       analyzer.error = Error_new("ItemIsNotNamespace", last.path[1].location,
                                  last.path[1].name, NoLocation)

\* ------------------------------------------------ analyzers of one process
\* Every analyzer of the process declares structures, enumerations and
\* functions of its own module; all of them read and write the one type
\* index.  Between the read of the length and the insertion the analyzer
\* holds no lock.
Thread_new ==
  [a |-> Analyzer_new(<<Scope_new(0)>>, NoMembers, EmptyIndex), pc |-> "idle",
   kind |-> "", identifier |-> Identifier_new(NoLocation, ""), fields |-> <<>>,
   unique_id |-> -1, declared |-> <<>>]

Threads == 1..2

InitIndex ==
  /\ IdleMachines
  /\ analyzer = Analyzer_new(<<Scope_new(0)>>, NoMembers, EmptyIndex)
  /\ last = NoStatement
  /\ process = [TYPE_INDEX |-> EmptyIndex, analyzers |-> [t \in Threads |-> Thread_new]]
  /\ compilation = NoCompilation
  /\ zrustm = Zrustm_new

\* TYPE_INDEX.read().expect(..).len(): the first half of a declaration
ReadIndex ==
  \E t \in Threads, kind \in {"struct", "enum", "fn"}, name \in {"a", "b"},
     fields \in {<<>>, <<"value">>} :
    LET thread == process.analyzers[t]
    IN /\ thread.pc = "idle"
       /\ thread.a.error = NoError
       /\ Len(thread.declared) < MaxDeclarations
       /\ kind # "struct" => fields = <<>>
       /\ process' = [process EXCEPT !.analyzers[t] =
            [thread EXCEPT
               !.pc = "read", !.kind = kind, !.fields = fields,
               !.identifier = Identifier_new(Location_new(Len(thread.declared) + 1, 1), name),
               !.unique_id = TYPE_INDEX_len(process.TYPE_INDEX)]]
       /\ UNCHANGED <<vmVars, blake, interp, analyzer, last, compilation, zrustm>>

\* TYPE_INDEX.write().expect(..).insert(unique_id, ..) and the declaration
WriteIndex ==
  \E t \in Threads :
    LET thread == process.analyzers[t]
        shared == [thread.a EXCEPT !.TYPE_INDEX = process.TYPE_INDEX]
        a == IF thread.kind = "struct"
               THEN Analyzer_struct_insert(shared, thread.identifier, thread.fields,
                                           thread.unique_id)
             ELSE IF thread.kind = "enum"
               THEN Analyzer_enum_insert(shared, thread.identifier, <<"v">>,
                                         thread.unique_id)
             ELSE LET begun == Analyzer_fn_insert(shared, thread.identifier, <<>>,
                                                  thread.unique_id)
                  IN IF begun.error # NoError THEN begun ELSE Analyzer_fn_end(begun)
    IN /\ thread.pc = "read"
       /\ process' = [process EXCEPT
            !.TYPE_INDEX = a.TYPE_INDEX,
            !.analyzers[t] =
              [thread EXCEPT
                 !.pc = "idle", !.a = a,
                 !.declared =
                   IF a.error # NoError THEN @
                   ELSE Append(@, Scope_get_item(a.scopes, 1, thread.identifier.name).type)]]
       /\ UNCHANGED <<vmVars, blake, interp, analyzer, last, compilation, zrustm>>

NextIndex ==
  \/ ReadIndex
  \/ WriteIndex

SpecIndex == InitIndex /\ [][NextIndex]_vars

\* -------------------------------------------- two compilations in a row
\* One process compiles the same source twice.  The source is a list of
\* declarations; the output of a compilation is what goes to the
\* generator: the functions and the declared types with their unique_id.
Sources(n) ==
  UNION {[1..k -> {"struct", "enum", "fn"} \X {"a", "b"}] : k \in 1..n}

\* the start of a compilation: the type index is emptied
Compiler_start_keeping_index(index) == index

Compiler_start(index) == EmptyIndex

Output(a) ==
  [generated |-> a.generated,
   types |-> {[identifier |-> e.name, kind |-> e.item.type.kind,
               unique_id |-> e.item.type.unique_id] : e \in a.scopes[1].items},
   error |-> a.error.kind]

InitCompile ==
  /\ IdleMachines
  /\ analyzer = Analyzer_new(<<Scope_new(0)>>, NoMembers, EmptyIndex)
  /\ last = NoStatement
  /\ \E index \in {EmptyIndex, TYPE_INDEX_insert(EmptyIndex, 0, "earlier")} :
       process = [TYPE_INDEX |-> index, analyzers |-> <<>>]
  /\ \E source \in Sources(MaxSource) :
       compilation = [source |-> source, started |-> FALSE, position |-> 0,
                      inherited |-> 0, outputs |-> <<>>]
  /\ zrustm = Zrustm_new

CompileStart ==
  /\ ~compilation.started /\ Len(compilation.outputs) < 2
  /\ process' = [process EXCEPT !.TYPE_INDEX = Compiler_start(@)]
  /\ analyzer' = Analyzer_new(<<Scope_new(0)>>, NoMembers,
                              Compiler_start(process.TYPE_INDEX))
  /\ compilation' = [compilation EXCEPT
       !.started = TRUE, !.position = 0,
       !.inherited = IF compilation.outputs = <<>>
                       THEN TYPE_INDEX_len(process.TYPE_INDEX) ELSE @]
  /\ UNCHANGED <<vmVars, blake, interp, last, zrustm>>

CompileStatement ==
  /\ compilation.started /\ analyzer.error = NoError
  /\ compilation.position < Len(compilation.source)
  /\ LET statement == compilation.source[compilation.position + 1]
         identifier == Identifier_new(Location_new(compilation.position + 1, 1),
                                      statement[2])
         a == IF statement[1] = "struct"
                THEN Analyzer_struct(analyzer, identifier, <<"value">>)
              ELSE IF statement[1] = "enum"
                THEN Analyzer_enum(analyzer, identifier, <<"v">>)
              ELSE Analyzer_fn(analyzer, identifier, <<>>)
     IN /\ analyzer' = a
        /\ process' = [process EXCEPT !.TYPE_INDEX = a.TYPE_INDEX]
  /\ compilation' = [compilation EXCEPT !.position = @ + 1]
  /\ UNCHANGED <<vmVars, blake, interp, last, zrustm>>

CompileEnd ==
  /\ compilation.started
  /\ analyzer.error # NoError \/ compilation.position = Len(compilation.source)
  /\ compilation' = [compilation EXCEPT !.started = FALSE,
                                        !.outputs = Append(@, Output(analyzer))]
  /\ UNCHANGED <<vmVars, blake, interp, analyzer, last, process, zrustm>>

NextCompile ==
  \/ CompileStart
  \/ CompileStatement
  \/ CompileEnd

SpecCompile == InitCompile /\ [][NextCompile]_vars

\* every type the analyzers of the process have declared
Declarations ==
  {<<t, i>> : t \in DOMAIN process.analyzers, i \in 1..MaxDeclarations + 1}
    \cap {d \in (DOMAIN process.analyzers) \X (1..MaxDeclarations + 1) :
            d[2] <= Len(process.analyzers[d[1]].declared)}

DeclaredType(d) == process.analyzers[d[1]].declared[d[2]]

\* C15: no two declarations of functions, structures and enumerations of
\* one process carry the same unique_id, under every interleaving of its
\* analyzers, and two declared structures are equal as types only when
\* their unique_id is the same.
C15_UniqueIdNeverReused ==
  \A d1, d2 \in Declarations :
    /\ d1 # d2 => DeclaredType(d1).unique_id # DeclaredType(d2).unique_id
    /\ Structure_eq(DeclaredType(d1), DeclaredType(d2)) => d1 = d2

InitSemantic ==
  /\ IdleMachines
  /\ analyzer = Analyzer_new(<<Scope_new(0)>>, NoMembers, EmptyIndex)
  /\ last = NoStatement
  /\ process = NoProcess
  /\ compilation = NoCompilation
  /\ zrustm = Zrustm_new

Literals == {100, 200, 300}

ConstTypes ==
  {Type_integer_unsigned(BITLENGTH_BYTE), Type_integer_unsigned(2 * BITLENGTH_BYTE),
   Type_integer_signed(BITLENGTH_BYTE), Type_integer_signed(2 * BITLENGTH_BYTE)}

CastTypes == ConstTypes \cup {Type_field, Type_boolean, Type_unit}

ConstantsDeclared == Cardinality(analyzer.scopes[1].items)

\* `const <name>: <type> = <expression>;`
ConstFold ==
  \E name \in {"a", "b"}, type \in ConstTypes,
     operator \in {"literal", "+", "-", "*", "neg", "as"},
     left \in Literals, right \in {100, 200}, to \in ConstTypes :
    LET line == ConstantsDeclared + 1
        expression == Expression_new(Location_new(line, 15), operator, left,
                                     IF operator \in {"+", "-", "*"} THEN right ELSE 0,
                                     IF operator = "as" THEN to ELSE Type_unit)
        statement == ConstStatement_new(Identifier_new(Location_new(line, 7), name),
                                        Location_new(line, 10), type, expression)
    IN /\ analyzer.error = NoError
       /\ ConstantsDeclared < MaxConstants
       /\ operator \notin {"+", "-", "*"} => right = 100
       /\ operator # "as" => to = Type_integer_unsigned(BITLENGTH_BYTE)
       /\ analyzer' = Analyzer_const(analyzer, statement)
       /\ last' = [op |-> "const", statement |-> statement, before |-> analyzer]
       /\ UNCHANGED <<vmVars, blake, interp, process, compilation, zrustm>>

\* `<element> as <type>` on a value and on a constant
CastValue ==
  \E from \in CastTypes, to \in CastTypes :
    LET result == Value_cast(Value_new(from), to)
    IN /\ last' = [op |-> "cast", element |-> "Value", from |-> from, to |-> to,
                   value |-> 0, accepted |-> result.error = "None",
                   error |-> result.error,
                   type |-> Value_type(result.value), result |-> 0]
       /\ UNCHANGED <<vmVars, blake, interp, analyzer, process, compilation, zrustm>>

CastConstant ==
  \E from \in CastTypes, to \in CastTypes, value \in {-100, 1, 100, 200, 300} :
    LET result == Constant_cast(Constant_new(from, value), to)
    IN /\ IF IsInteger(from) THEN Integer_fits(value, from) ELSE value = 1
       /\ last' = [op |-> "cast", element |-> "Constant", from |-> from, to |-> to,
                   value |-> value, accepted |-> result.error = NoError,
                   error |-> result.error.kind,
                   type |-> result.constant.type, result |-> result.constant.value]
       /\ UNCHANGED <<vmVars, blake, interp, analyzer, process, compilation, zrustm>>

BlockTypes == {Type_integer_unsigned(BITLENGTH_BYTE), Type_boolean, Type_unit}

ConditionTypes == {Type_boolean, Type_integer_unsigned(BITLENGTH_BYTE)}

Condition_new(location, type, value) ==
  [location |-> location, type |-> type, value |-> value]

NoConditional == [else_kind |-> "none"]

\* `if c { M }`, `if c { M } else { E }` and `if c { M } else if d { N } ..`
Conditionals ==
  LET inner ==
        {Conditional_new(Location_new(1, 25), Condition_new(Location_new(1, 28), ct, cv),
                         Block_new(Location_new(1, 35), mt, 3), ek,
                         Block_new(Location_new(1, 47), et, 4), NoConditional) :
           ct \in ConditionTypes, cv \in {0, 1}, mt \in BlockTypes,
           ek \in {"none", "block"}, et \in BlockTypes}
      outer(ek, else_block, else_if) ==
        {Conditional_new(Location_new(1, 5), Condition_new(Location_new(1, 8), ct, cv),
                         Block_new(Location_new(1, 15), mt, 42), ek, else_block, else_if) :
           ct \in ConditionTypes, cv \in {0, 1}, mt \in BlockTypes}
  IN outer("none", Block_new(NoLocation, Type_unit, 0), NoConditional)
       \cup UNION {outer("block", Block_new(Location_new(1, 27), et, 7), NoConditional) :
                     et \in BlockTypes}
       \cup UNION {outer("if", Block_new(NoLocation, Type_unit, 0), c) : c \in inner}

ConditionalExpression ==
  \E conditional \in Conditionals :
    /\ last' = [op |-> "if", conditional |-> conditional,
                analyzed |-> ConditionalAnalyzer_analyze(conditional),
                evaluated |-> evaluate_conditional_expression(conditional)]
    /\ UNCHANGED <<vmVars, blake, interp, analyzer, process, compilation, zrustm>>

\* a module of constants
SpecFold == InitSemantic /\ [][ConstFold]_vars

\* the casts of the expressions of a function
NextCast ==
  \/ CastValue
  \/ CastConstant

SpecCast == InitSemantic /\ [][NextCast]_vars

\* the conditional expressions of a function
SpecConditional == InitSemantic /\ [][ConditionalExpression]_vars

\* the type a conditional without a nested `else if` has when it is
\* well typed: `Unit` stands for a missing `else`
ElseType(conditional) ==
  IF conditional.else_kind = "block" THEN conditional.else_block.type
  ELSE IF conditional.else_kind = "if" THEN conditional.else_if.main_block.type
  ELSE Type_unit

FlatWellTyped(conditional) ==
  /\ conditional.condition.type = Type_boolean
  /\ conditional.main_block.type = ElseType(conditional)

ElseWellTyped(conditional) ==
  conditional.else_kind = "if" => FlatWellTyped(conditional.else_if)

\* the value the conditional has at run time
ChosenValue(conditional) ==
  IF conditional.condition.value = 1 THEN conditional.main_block.value
  ELSE IF conditional.else_kind = "block" THEN conditional.else_block.value
  ELSE IF conditional.else_kind = "none" THEN 0
  ELSE IF conditional.else_if.condition.value = 1
    THEN conditional.else_if.main_block.value
  ELSE IF conditional.else_if.else_kind = "block"
    THEN conditional.else_if.else_block.value
  ELSE 0

\* C17: a conditional whose condition is not Boolean is rejected at the
\* condition; one whose branches differ in type (a missing else being
\* Unit) is rejected at the result of the main block, referencing the
\* result of the else block; otherwise its type is the type of the main
\* block.  The reference interpreter accepts the same conditionals and
\* gives them the same type.
C17_ConditionalTyping ==
  last.op = "if" =>
    LET c == last.conditional
        r == last.analyzed
        e == last.evaluated
    IN /\ c.condition.type # Type_boolean =>
            /\ r.error.kind = "ConditionalExpectedBooleanCondition"
            /\ r.error.location = c.condition.location
       /\ (c.condition.type = Type_boolean /\ ElseWellTyped(c)
             /\ c.main_block.type # ElseType(c)) =>
            /\ r.error.kind = "ConditionalBranchTypesMismatch"
            /\ r.error.location = c.main_block.location
            /\ c.else_kind = "block" => r.error.reference = c.else_block.location
       /\ (c.condition.type = Type_boolean /\ ElseWellTyped(c)
             /\ c.main_block.type = ElseType(c)) =>
            /\ r.error = NoError
            /\ r.type = c.main_block.type
       /\ (r.error = NoError) <=> (e.error = "None")
       /\ r.error = NoError => e.type = r.type /\ e.value = ChosenValue(c)
       /\ r.error.kind = "ConditionalExpectedBooleanCondition" =>
            e.error = "ConditionalExpectedBooleanExpression"
       /\ r.error.kind = "ConditionalBranchTypesMismatch" =>
            e.error = "ConditionalBranchTypeMismatch"

C17_Witness ==
  /\ last.op = "if"
  /\ last.conditional.else_kind = "none"
  /\ last.conditional.condition.type = Type_boolean
  /\ last.conditional.main_block.type = Type_integer_unsigned(BITLENGTH_BYTE)
  /\ last.analyzed.error.kind = "ConditionalBranchTypesMismatch"

\* the exact value of a constant expression and the type its operator
\* works in
Exact(expression) ==
  IF expression.operator = "+" THEN expression.left + expression.right
  ELSE IF expression.operator = "-" THEN expression.left - expression.right
  ELSE IF expression.operator = "*" THEN expression.left * expression.right
  ELSE IF expression.operator = "neg" THEN -expression.left
  ELSE expression.left

LiteralType(value) ==
  IF value < 256 THEN Type_integer_unsigned(8) ELSE Type_integer_unsigned(16)

OperatorType(expression) ==
  IF expression.operator = "neg"
    THEN Type_integer_signed(LiteralType(expression.left).bitlength)
  ELSE IF expression.operator = "as" THEN expression.to
  ELSE LiteralType(expression.left)

OverflowOf(expression) ==
  IF expression.operator = "+" THEN "OverflowAddition"
  ELSE IF expression.operator = "-" THEN "OverflowSubtraction"
  ELSE IF expression.operator = "*" THEN "OverflowMultiplication"
  ELSE IF expression.operator = "neg" THEN "OverflowNegation"
  ELSE "OverflowCasting"

\* the operands have one type and a cast does not narrow
WellTypedOperands(expression) ==
  /\ expression.operator \in {"+", "-", "*"} =>
       LiteralType(expression.left) = LiteralType(expression.right)
  /\ expression.operator = "as" =>
       expression.to.bitlength >= LiteralType(expression.left).bitlength

Representable(value, type) ==
  IF type.kind = "IntegerSigned"
    THEN -(2 ^ (type.bitlength - 1)) <= value /\ value < 2 ^ (type.bitlength - 1)
  ELSE 0 <= value /\ value < 2 ^ type.bitlength

C19_CastWidensIntegers ==
  last.op = "cast" =>
    LET widening == /\ IsInteger(last.from)
                    /\ IsInteger(last.to)
                    /\ last.to.bitlength >= last.from.bitlength
    IN /\ last.accepted => widening
       /\ ~widening => last.error \in {"CastingFromInvalidType", "CastingToInvalidType"}
       /\ last.accepted => last.type = last.to
       /\ (last.accepted /\ last.element = "Constant") => last.result = last.value
       /\ (widening /\ last.element = "Value") => last.accepted

C19_Witness ==
  /\ last.op = "cast"
  /\ last.element = "Value"
  /\ last.from = Type_integer_unsigned(BITLENGTH_BYTE)
  /\ last.to = Type_integer_signed(2 * BITLENGTH_BYTE)
  /\ last.accepted
  /\ last.type = Type_integer_signed(2 * BITLENGTH_BYTE)

\* ------------------------------------------------------- frames of zrustm
\* The machine pushes values and begins and ends frames; `last` holds the
\* instruction and the machine before it.
InitFrames ==
  /\ IdleMachines
  /\ analyzer = Analyzer_new(<<Scope_new(0)>>, NoMembers, EmptyIndex)
  /\ last = [op |-> "Start", outputs_count |-> 0, before |-> Zrustm_new]
  /\ process = NoProcess
  /\ compilation = NoCompilation
  /\ zrustm = Zrustm_new

Executing == zrustm.error = "None"

PushConst ==
  \E value \in {1, 2} :
    /\ Executing /\ Len(zrustm.stack) < MaxValues
    /\ zrustm' = Zrustm_push(zrustm, value)
    /\ last' = [op |-> "PushConst", outputs_count |-> 0, before |-> zrustm]
    /\ UNCHANGED <<vmVars, blake, interp, analyzer, process, compilation>>

FrameBeginInstruction ==
  /\ Executing /\ Len(zrustm.frames) < MaxFrames
  /\ zrustm' = FrameBegin_execute(zrustm)
  /\ last' = [op |-> "FrameBegin", outputs_count |-> 0, before |-> zrustm]
  /\ UNCHANGED <<vmVars, blake, interp, analyzer, process, compilation>>

FrameEndInstruction ==
  \E outputs_count \in 0..2 :
    /\ Executing
    /\ zrustm' = FrameEnd_execute(zrustm, outputs_count)
    /\ last' = [op |-> "FrameEnd", outputs_count |-> outputs_count, before |-> zrustm]
    /\ UNCHANGED <<vmVars, blake, interp, analyzer, process, compilation>>

NextFrames ==
  \/ PushConst
  \/ FrameBeginInstruction
  \/ FrameEndInstruction

SpecFrames == InitFrames /\ [][NextFrames]_vars

\* C20: FrameEnd(n) leaves the values below the frame as they were and,
\* directly above them, the top n values of the frame in their order; it
\* closes the frame; with fewer than n values in the frame or with no open
\* frame it is an error.
C20_FrameEndKeepsOutputs ==
  last.op = "FrameEnd" =>
    LET before == last.before
        n == last.outputs_count
        open == Len(before.frames)
        base == before.frames[open]
        height == Len(before.stack)
    IN IF open = 0 \/ height - base < n
         THEN zrustm.error # "None"
       ELSE /\ zrustm.error = "None"
            /\ Len(zrustm.stack) = base + n
            /\ \A i \in 1..base : zrustm.stack[i] = before.stack[i]
            /\ \A i \in 1..n : zrustm.stack[base + i] = before.stack[height - n + i]
            /\ zrustm.frames = SubSeq(before.frames, 1, open - 1)

C20_Witness ==
  /\ last.op = "FrameEnd"
  /\ last.outputs_count = 2
  /\ zrustm.error = "None"
  /\ Len(last.before.stack) - Len(zrustm.stack) > 0
  /\ Len(zrustm.stack) > 2
  /\ zrustm.stack[Len(zrustm.stack)] # zrustm.stack[Len(zrustm.stack) - 1]

\* ------------------------------------------------- the Blake2s library calls
\* One call of std::crypto::blake2s or of blake2s_multi_input on a stack
\* that holds some values and, above them, the bits of whole bytes.
BlakeLengths == {4 * k : k \in 0..2 * MaxBytes}

RECURSIVE BytesOf(_)
BytesOf(n) ==
  IF n = 0 THEN {<<>>}
  ELSE {bytes \o Bits8(byte) : bytes \in BytesOf(n - 1), byte \in ByteValues}

BlakeStacks ==
  {below \o bytes : below \in {<<>>, <<1>>, <<1, 0>>},
                    bytes \in UNION {BytesOf(n) : n \in 0..MaxBytes}}

InitBlake ==
  /\ vm = InitState(TRUE, 0, 0)
  /\ setup = InitState(FALSE, 0, 0)
  /\ instr = Instruction("Start", 0, "", 0, "")
  /\ obs = StartObs
  /\ steps = 0
  /\ arms = <<>>
  /\ closed = NoBranch
  /\ finished = FALSE
  /\ interp = InterpreterNew
  /\ analyzer = Analyzer_new(<<Scope_new(0)>>, NoMembers, EmptyIndex)
  /\ process = NoProcess
  /\ compilation = NoCompilation
  /\ zrustm = Zrustm_new
  /\ \E function \in {"Blake2s", "Blake2sMultiInput"},
        message_length \in BlakeLengths, stack \in BlakeStacks :
       /\ blake = [BlakeState(message_length, stack) EXCEPT
                     !.error = IF function = "Blake2s" THEN Blake2s_new(message_length)
                               ELSE Blake2sMultiInput_new(message_length)]
       /\ last = [op |-> "new", function |-> function, before |-> blake]

Blake2sCall ==
  /\ last.function = "Blake2s"
  /\ blake.error = "None" /\ ~blake.called
  /\ blake' = Blake2s_call(blake)
  /\ last' = [op |-> "call", function |-> last.function, before |-> blake]
  /\ UNCHANGED <<vmVars, interp, analyzer, process, compilation, zrustm>>

Blake2sMultiInputExecute ==
  /\ last.function = "Blake2sMultiInput"
  /\ blake.error = "None" /\ ~blake.called
  /\ blake' = Blake2sMultiInput_execute(blake)
  /\ last' = [op |-> "call", function |-> last.function, before |-> blake]
  /\ UNCHANGED <<vmVars, interp, analyzer, process, compilation, zrustm>>

NextBlake ==
  \/ Blake2sCall
  \/ Blake2sMultiInputExecute

SpecBlake == InitBlake /\ [][NextBlake]_vars

\* C21: a call is constructed exactly for the message lengths that are
\* multiples of 8, any other length is InvalidArguments; a call on a stack
\* of at least L values pops L values, pushes 256 booleans and leaves the
\* values below unchanged; on a shorter stack it is an error.
C21_Blake2sStackEffect ==
  /\ last.op = "new" =>
       blake.error = IF blake.message_length % 8 = 0 THEN "None" ELSE "InvalidArguments"
  /\ last.op = "call" =>
       LET L == blake.message_length
           before == last.before.stack
           below == Len(before) - L
       IN /\ L % 8 = 0
          /\ IF below < 0 THEN blake.error # "None"
             ELSE /\ blake.error = "None"
                  /\ Len(blake.stack) = below + 256
                  /\ \A i \in 1..below : blake.stack[i] = before[i]
                  /\ \A j \in 1..256 : blake.stack[below + j] \in {0, 1}

C21_Witness ==
  /\ last.op = "call" /\ blake.error = "None"
  /\ blake.message_length = 8
  /\ Len(last.before.stack) = 10

\* the reversal of the bits inside every chunk of 8 bits of a sequence of
\* whole chunks
ChunkReversed(q) == [i \in 1..Len(q) |-> q[8 * ((i - 1) \div 8) + 8 - ((i - 1) % 8)]]

\* C27: the gadget gets the message bits in the order of the pushes with
\* the bits of every chunk of 8 reversed, the bits pushed back are the
\* digest of the gadget with the same reversal, the reversal is its own
\* inverse, and Blake2s and Blake2sMultiInput do the same.
C27_Blake2sBitOrder ==
  (last.op = "call" /\ blake.error = "None") =>
    LET L == blake.message_length
        before == last.before.stack
        below == Len(before) - L
        message == SubSeq(before, below + 1, Len(before))
        pushed == SubSeq(blake.stack, below + 1, Len(blake.stack))
    IN /\ blake.preimage = ChunkReversed(message)
       /\ pushed = ChunkReversed(blake.digest)
       /\ ChunkReversed(blake.preimage) = message
       /\ reverse_byte_bits(reverse_byte_bits(message)) = message
       /\ Blake2s_call(last.before) = Blake2sMultiInput_execute(last.before)

C27_Witness ==
  /\ last.op = "call" /\ blake.error = "None"
  /\ last.function = "Blake2sMultiInput"
  /\ blake.message_length = 16
  /\ blake.preimage # SubSeq(last.before.stack, Len(last.before.stack) - 15,
                             Len(last.before.stack))
  /\ blake.preimage # reverse(SubSeq(last.before.stack, Len(last.before.stack) - 15,
                                     Len(last.before.stack)))

\* ------------------------------------------------------ the Gt instruction
\* Bytecode that pushes two I8 operands, constants or witness values, above
\* what the stack holds, and compares them.
GtValues == {IntMin, -1, 0, 1, 2, IntMax}

GtOperands(witness) ==
  {Const(v, "i8") : v \in GtValues} \cup {Variable(witness, v, "i8") : v \in {-1, 2}}

\* the operand of the run without witness values
Unknown(x) == IF x.c THEN x ELSE Variable(FALSE, 0, x.t)

InitGt ==
  /\ \E below \in {<<>>, <<Const(1, "bool")>>},
        left \in GtOperands(TRUE), right \in GtOperands(TRUE) :
       /\ vm = push(push([InitState(TRUE, 0, 0) EXCEPT !.evaluation_stack = <<below>>],
                         left), right)
       /\ setup = push(push([InitState(FALSE, 0, 0) EXCEPT !.evaluation_stack = <<below>>],
                            Unknown(left)), Unknown(right))
       /\ last = [op |-> "Gt", before |-> Top(vm)]
  /\ instr = Instruction("Start", 0, "", 0, "")
  /\ obs = StartObs
  /\ steps = 0
  /\ arms = <<>>
  /\ closed = NoBranch
  /\ finished = FALSE
  /\ blake = BlakeState(0, <<>>)
  /\ interp = InterpreterNew
  /\ analyzer = Analyzer_new(<<Scope_new(0)>>, NoMembers, EmptyIndex)
  /\ process = NoProcess
  /\ compilation = NoCompilation
  /\ zrustm = Zrustm_new

SpecGt == InitGt /\ [][ExecGt]_vars

\* C23: Gt takes the top of the stack as its right operand and the value
\* beneath as its left operand, and leaves in their place one boolean that
\* is 1 when left > right as signed integers and 0 otherwise.
C23_GtComparesLeftToRight ==
  (instr.op = "Gt" /\ steps = 1) =>
    LET n == Len(last.before)
        right == last.before[n]
        left == last.before[n - 1]
        result == Last(Top(vm))
    IN /\ vm.error = "None"
       /\ Len(Top(vm)) = n - 1
       /\ Front(Top(vm)) = SubSeq(last.before, 1, n - 2)
       /\ result.t = "bool"
       /\ result.v = IF left.v > right.v THEN 1 ELSE 0
       /\ setup.error = "None" /\ Len(Top(setup)) = n - 1

C23_Witness ==
  /\ instr.op = "Gt" /\ steps = 1 /\ vm.error = "None"
  /\ Len(last.before) = 3
  /\ last.before[2].v = -1 /\ last.before[3].v = IntMin
  /\ Last(Top(vm)).v = 1

\* -------------------------------------------- redeclaration and scope depth
\* the names the text declares in the block the statement stands in
CurrentNames(lexical) == {d.name : d \in lexical[Len(lexical)]}

\* the names the text declares in the blocks around that block
AncestorNames(lexical) ==
  UNION {{d.name : d \in lexical[i]} : i \in 1..(Len(lexical) - 1)}

\* C25 as stated: a `let` fails with ItemRedeclared exactly when the block
\* it stands in already declares the name; a name that only an enclosing
\* block declares can be declared again.
C25_CurrentScopeOnly ==
  last.op = "let" =>
    (analyzer.error.kind = "ItemRedeclared"
       <=> last.identifier.name \in CurrentNames(last.lexical0))

\* C25: a `let` fails with ItemRedeclared exactly when the block it stands
\* in or a block around it, up to the module, already declares the name;
\* a name that only an enclosing block declares is rejected too, with a
\* reference to the declaration of that enclosing block.
C25_RedeclarationChecksAncestors ==
  last.op = "let" =>
    /\ analyzer.error.kind = "ItemRedeclared"
         <=> last.identifier.name
               \in CurrentNames(last.lexical0) \cup AncestorNames(last.lexical0)
    /\ (/\ last.identifier.name \in AncestorNames(last.lexical0)
        /\ last.identifier.name \notin CurrentNames(last.lexical0)) =>
          \E i \in 1..(Len(last.lexical0) - 1) :
            \E d \in last.lexical0[i] :
              /\ d.name = last.identifier.name
              /\ analyzer.error.reference = d.location

C25_Witness ==
  /\ last.op = "let"
  /\ analyzer.error.kind = "ItemRedeclared"
  /\ last.identifier.name \in AncestorNames(last.lexical0)
  /\ last.identifier.name \notin CurrentNames(last.lexical0)

\* C29: when the analysis of a statement of the module has returned, with
\* an error or without one, the scope stack is as deep as before the
\* statement and the scope of the module is on top.
C29_ScopeStackRestored ==
  (analyzer.error # NoError \/ (last.op # "Start" /\ InModule)) =>
    analyzer.scope_stack = <<1>>

\* --------------------------------------------- interpreter: control flow
\* A value of the interpreter: Value::Unit, Value::Boolean, Value::Integer
Element_value(type, value) == [t |-> type, v |-> value]

Element_unit == Element_value("unit", 0)

\* an element of the syntax tree: a literal, an identifier, a block, a
\* conditional or an operator with its operands
Expression_tree(kind, value, name, operands, statements) ==
  [kind |-> kind, value |-> value, name |-> name, operands |-> operands,
   statements |-> statements]

Literal_boolean(b) == Expression_tree("boolean", b, "", <<>>, <<>>)

Literal_integer(n) == Expression_tree("integer", n, "", <<>>, <<>>)

Operand_unit == Expression_tree("unit", 0, "", <<>>, <<>>)

Operand_identifier(name) == Expression_tree("identifier", 0, name, <<>>, <<>>)

Operator_binary(kind, left, right) == Expression_tree(kind, 0, "", <<left, right>>, <<>>)

Operator_assignment(name, value) == Expression_tree("assignment", 0, name, <<value>>, <<>>)

BlockExpression_new(statements) == Expression_tree("block", 0, "", <<>>, statements)

ConditionalExpression_new(condition, main_block, else_block) ==
  Expression_tree("conditional", 0, "", <<condition, main_block>> \o else_block, <<>>)

\* a statement of the syntax tree
Statement_tree(kind, name, is_mutable, expression, range_start, range_end,
               is_range_inclusive, while_condition, statements) ==
  [kind |-> kind, name |-> name, is_mutable |-> is_mutable,
   expression |-> expression, range_start |-> range_start,
   range_end |-> range_end, is_range_inclusive |-> is_range_inclusive,
   while_condition |-> while_condition, statements |-> statements]

Statement_require(expression) ==
  Statement_tree("require", "", FALSE, expression, 0, 0, FALSE, <<>>, <<>>)

Statement_let(name, is_mutable, expression) ==
  Statement_tree("let", name, is_mutable, expression, 0, 0, FALSE, <<>>, <<>>)

Statement_debug(expression) ==
  Statement_tree("debug", "", FALSE, expression, 0, 0, FALSE, <<>>, <<>>)

Statement_expression(expression) ==
  Statement_tree("expression", "", FALSE, expression, 0, 0, FALSE, <<>>, <<>>)

Statement_loop(name, range_start, range_end, is_range_inclusive, while_condition,
               statements) ==
  Statement_tree("loop", name, FALSE, Operand_unit, range_start, range_end,
                 is_range_inclusive, while_condition, statements)

\* Interpreter::new(scope): a constraint system of its own and the chain
\* of the scopes from the root to the scope of this executor; `trace` is
\* the list of the guards evaluated and of the bodies entered
Interpreter_new(scope, trace) ==
  [id_sequence |-> 0, system |-> <<>>, scope |-> scope, error |-> "None",
   trace |-> trace]

\* Scope::new(Some(self.scope.clone())): the parent is shared, so what the
\* executor of the child changes in it is changed for the parent
Interpreter_child(i) == Interpreter_new(Append(i.scope, <<>>), i.trace)

\* the parent after the executor of a child scope has returned
Interpreter_after(i, executor) ==
  [i EXCEPT !.scope = SubSeq(executor.scope, 1, Len(i.scope)),
            !.trace = executor.trace,
            !.error = executor.error]

\* the scope of the chain that declares the name, 0 if none does
RECURSIVE Scope_holder(_, _, _)
Scope_holder(scope, name, depth) ==
  IF depth = 0 THEN 0
  ELSE IF name \in DOMAIN scope[depth] THEN depth
  ELSE Scope_holder(scope, name, depth - 1)

\* Scope::declare_variable of the interpreter
Interpreter_declare_variable(i, name, value, is_mutable) ==
  IF Scope_holder(i.scope, name, Len(i.scope)) # 0
    THEN [i EXCEPT !.error = "RedeclaredItem"]
  ELSE [i EXCEPT !.scope[Len(i.scope)] =
          [n \in DOMAIN @ \cup {name} |->
             IF n = name THEN [value |-> value, is_mutable |-> is_mutable]
             ELSE @[n]]]

\* Scope::get_value
Interpreter_get_value(i, name) ==
  LET depth == Scope_holder(i.scope, name, Len(i.scope))
  IN IF depth = 0 THEN [i |-> [i EXCEPT !.error = "UndeclaredItem"],
                        value |-> Element_unit]
     ELSE [i |-> i, value |-> i.scope[depth][name].value]

\* Scope::update_value
Interpreter_update_value(i, name, value) ==
  LET depth == Scope_holder(i.scope, name, Len(i.scope))
  IN IF depth = 0 THEN [i EXCEPT !.error = "UndeclaredItem"]
     ELSE IF ~i.scope[depth][name].is_mutable
       THEN [i EXCEPT !.error = "MutatingImmutable"]
     ELSE [i EXCEPT !.scope[depth][name].value = value]

\* Value::greater, Value::lesser
Element_compare(kind, left, right) ==
  IF left.t # "integer" \/ right.t # "integer" THEN [error |-> "Element", value |-> Element_unit]
  ELSE [error |-> "None",
        value |-> Element_value("boolean",
                    IF kind = "greater" THEN (IF left.v > right.v THEN 1 ELSE 0)
                    ELSE (IF left.v < right.v THEN 1 ELSE 0))]

Evaluation(i, value) == [i |-> i, value |-> value]

Erroneous(i, error) == Evaluation([i EXCEPT !.error = error], Element_unit)

\* the loop has run over its range
loop_range_exhausted(loop, is_reverse, index) ==
  IF loop.is_range_inclusive /\ is_reverse THEN index < loop.range_end
  ELSE IF loop.is_range_inclusive THEN index > loop.range_end
  ELSE IF is_reverse THEN index <= loop.range_end
  ELSE index >= loop.range_end

\* a loop that goes on after a guard that is false
while_condition_never_breaks(boolean) == FALSE

\* `if boolean.is_false() { break; }`
while_condition_breaks(boolean) == boolean.v = 0

\* Interpreter::execute_statement, evaluate_expression,
\* evaluate_block_expression and evaluate_conditional_expression, which
\* call one another: `what` names the function, `node` is its argument,
\* and the answer is the interpreter afterwards with the value.  "loop" is
\* Statement::Loop from the iteration of `index` on, "statements" the
\* statements of a block from the index-th on.
RECURSIVE Interpreter_run(_, _, _, _)
Interpreter_run(i, what, node, index) ==
  IF what = "statements" THEN
    \* `for statement in statements { executor.execute_statement(statement)?; }`
    IF index > Len(node) \/ i.error # "None" THEN Evaluation(i, Element_unit)
    ELSE Interpreter_run(Interpreter_run(i, "statement", node[index], 0).i,
                         "statements", node, index + 1)
  ELSE IF what = "loop" THEN
    LET is_reverse == node.range_end < node.range_start
    IN IF loop_range_exhausted(node, is_reverse, index) THEN Evaluation(i, Element_unit)
       ELSE
         LET i1 == next_temp_namespace(i)
             scope == Interpreter_declare_variable(
                        Interpreter_child(i1), node.name,
                        Element_value("integer", index), FALSE)
             guard == IF node.while_condition = <<>>
                        THEN Evaluation(scope, Element_value("boolean", 1))
                      ELSE Interpreter_run(scope, "expression", node.while_condition[1], 0)
             guarded == IF node.while_condition = <<>> \/ guard.i.error # "None"
                          THEN guard.i
                        ELSE [guard.i EXCEPT !.trace =
                                Append(@, [event |-> "guard", index |-> index,
                                           value |-> guard.value.v])]
         IN IF scope.error # "None"
              THEN Evaluation(Interpreter_after(i1, scope), Element_unit)
            ELSE IF guard.i.error # "None"
              THEN Evaluation(Interpreter_after(i1, guard.i), Element_unit)
            ELSE IF guard.value.t # "boolean"
              THEN Erroneous(Interpreter_after(i1, guarded),
                             "LoopWhileExpectedBooleanExpression")
            ELSE IF while_condition_breaks(guard.value)
              THEN Evaluation(Interpreter_after(i1, guarded), Element_unit)
            ELSE
              LET entered == [guarded EXCEPT !.trace =
                                Append(@, [event |-> "body", index |-> index,
                                           value |-> 1])]
                  executor == Interpreter_run(entered, "statements", node.statements, 1).i
                  i2 == Interpreter_after(i1, executor)
              IN IF i2.error # "None" THEN Evaluation(i2, Element_unit)
                 ELSE IF is_reverse
                   THEN (IF index > 0 THEN Interpreter_run(i2, "loop", node, index - 1)
                         ELSE Evaluation(i2, Element_unit))
                 \* `index += 1` at usize::MAX: a panic with overflow checks,
                 \* a wrap to 0 and an endless loop without; the loop does
                 \* not return normally
                 ELSE IF index = USIZE_MAX
                   THEN Erroneous(i2, "AttemptToAddWithOverflow")
                 ELSE Interpreter_run(i2, "loop", node, index + 1)
  ELSE IF what = "statement" THEN
    IF node.kind = "loop" THEN Interpreter_run(i, "loop", node, node.range_start)
    ELSE
      LET r == Interpreter_run(i, "expression", node.expression, 0)
      IN IF r.i.error # "None" THEN Evaluation(r.i, Element_unit)
         ELSE IF node.kind = "require" THEN
           IF r.value.t # "boolean"
             THEN Erroneous(r.i, "RequireExpectedBooleanExpression")
           ELSE IF r.value.v = 1 THEN Evaluation(r.i, Element_unit)
           ELSE Erroneous(r.i, "RequireFailed")
         ELSE IF node.kind = "let" THEN
           Evaluation(Interpreter_declare_variable(r.i, node.name, r.value,
                                                   node.is_mutable),
                      Element_unit)
         \* Statement::Debug and Statement::Expression
         ELSE Evaluation(r.i, Element_unit)
  ELSE IF what = "block" THEN
    LET executor == Interpreter_run(Interpreter_child(i), "statements",
                                    node.statements, 1).i
        result == IF node.operands = <<>> THEN Evaluation(executor, Element_unit)
                  ELSE Interpreter_run(executor, "expression", node.operands[1], 0)
    IN IF executor.error # "None"
         THEN Evaluation(Interpreter_after(i, executor), Element_unit)
       ELSE Evaluation(Interpreter_after(i, result.i), result.value)
  ELSE IF what = "conditional" THEN
    LET condition == Interpreter_run(i, "expression", node.operands[1], 0)
    IN IF condition.i.error # "None" THEN condition
       ELSE IF condition.value.t # "boolean"
         THEN Erroneous(condition.i, "ConditionalExpectedBooleanExpression")
       ELSE
         LET main == Interpreter_run(Interpreter_child(condition.i), "block",
                                     node.operands[2], 0)
             i1 == Interpreter_after(condition.i, main.i)
             else ==
               IF Len(node.operands) < 3 THEN Evaluation(i1, Element_unit)
               ELSE Interpreter_run(Interpreter_child(i1),
                                    node.operands[3].kind, node.operands[3], 0)
             i2 == Interpreter_after(i1, else.i)
         IN IF i1.error # "None" THEN Evaluation(i1, Element_unit)
            ELSE IF i2.error # "None" THEN Evaluation(i2, Element_unit)
            ELSE IF main.value.t # else.value.t
              THEN Erroneous(i2, "ConditionalBranchTypeMismatch")
            ELSE IF condition.value.v = 1 THEN Evaluation(i2, main.value)
            ELSE Evaluation(i2, else.value)
  \* what = "expression"
  ELSE IF node.kind = "unit" THEN Evaluation(i, Element_unit)
  ELSE IF node.kind \in {"boolean", "integer"} THEN
    Evaluation(next_temp_namespace(i), Element_value(node.kind, node.value))
  ELSE IF node.kind = "identifier" THEN Interpreter_get_value(i, node.name)
  ELSE IF node.kind \in {"block", "conditional"} THEN
    Interpreter_run(i, node.kind, node, 0)
  ELSE IF node.kind = "assignment" THEN
    LET operand_2 == Interpreter_run(i, "expression", node.operands[1], 0)
    IN IF operand_2.i.error # "None" THEN operand_2
       ELSE Evaluation(Interpreter_update_value(operand_2.i, node.name,
                                                operand_2.value),
                       Element_unit)
  ELSE
    \* ExpressionOperator::Greater, ExpressionOperator::Lesser
    LET operand_1 == Interpreter_run(i, "expression", node.operands[1], 0)
        operand_2 == Interpreter_run(operand_1.i, "expression", node.operands[2], 0)
        i1 == next_temp_namespace(operand_2.i)
        result == Element_compare(node.kind, operand_1.value, operand_2.value)
    IN IF operand_1.i.error # "None" THEN operand_1
       ELSE IF operand_2.i.error # "None" THEN operand_2
       ELSE IF result.error # "None" THEN Erroneous(i1, result.error)
       ELSE Evaluation(i1, result.value)

\* Interpreter::execute_statement
Interpreter_execute_statement(i, statement) ==
  Interpreter_run(i, "statement", statement, 0).i

\* Interpreter::evaluate_expression
Interpreter_evaluate_expression(i, expression) ==
  Interpreter_run(i, "expression", expression, 0)

\* Interpreter::evaluate_block_expression
Interpreter_evaluate_block_expression(i, block) ==
  Interpreter_run(i, "block", block, 0)

\* Interpreter::evaluate_conditional_expression
Interpreter_evaluate_conditional_expression(i, conditional) ==
  Interpreter_run(i, "conditional", conditional, 0)

\* ----------------------------------------------- the interpreter at work
\* An interpreter executes statements of a circuit one after the other:
\* declarations of `x` and `y`, debug statements, requirements,
\* conditionals whose arms assign or require, and loops whose body
\* assigns the index to `x`.
NoTree == Statement_tree("start", "", FALSE, Operand_unit, 0, 0, FALSE, <<>>, <<>>)

Executed(op, statement, before, after, executed) ==
  [op |-> op, statement |-> statement, before |-> before, trace |-> after.trace,
   executed |-> executed]

InitInterpreter ==
  /\ vm = InitState(TRUE, 0, 0)
  /\ setup = InitState(FALSE, 0, 0)
  /\ instr = Instruction("Start", 0, "", 0, "")
  /\ obs = StartObs
  /\ steps = 0
  /\ arms = <<>>
  /\ closed = NoBranch
  /\ finished = FALSE
  /\ blake = BlakeState(0, <<>>)
  /\ interp = Interpreter_new(<<<<>>>>, <<>>)
  /\ analyzer = Analyzer_new(<<Scope_new(0)>>, NoMembers, EmptyIndex)
  /\ last = Executed("new", NoTree, Interpreter_new(<<<<>>>>, <<>>),
                     Interpreter_new(<<<<>>>>, <<>>), 0)
  /\ process = NoProcess
  /\ compilation = NoCompilation
  /\ zrustm = Zrustm_new

Interpreting == interp.error = "None" /\ last.executed < MaxExecuted

\* one statement of the circuit, executed by Interpreter::interpret
Execute(op, statement) ==
  LET after == Interpreter_execute_statement(interp, statement)
  IN /\ interp' = [after EXCEPT !.trace = <<>>]
     /\ last' = Executed(op, statement, interp, after, last.executed + 1)
     /\ UNCHANGED <<vmVars, blake, analyzer, process, compilation, zrustm>>

DebugExpressions ==
  {Literal_integer(42), Literal_boolean(1), Operand_identifier("x"),
   Operand_identifier("y"), Operator_assignment("x", Literal_integer(1)),
   Operator_binary("greater", Operand_identifier("x"), Literal_integer(0))}

Arms ==
  {BlockExpression_new(<<>>),
   BlockExpression_new(<<Statement_expression(
                           Operator_assignment("x", Literal_integer(1)))>>),
   BlockExpression_new(<<Statement_expression(
                           Operator_assignment("x", Literal_integer(2)))>>),
   BlockExpression_new(<<Statement_require(Literal_boolean(0))>>)}

Guards ==
  {<<>>, <<Operator_binary("lesser", Operand_identifier("i"), Literal_integer(2))>>,
   <<Operator_binary("greater", Operand_identifier("i"), Literal_integer(1))>>,
   <<Operator_binary("lesser", Operand_identifier("x"), Literal_integer(1))>>}

Ranges == {<<0, 3>>, <<3, 0>>, <<1, 1>>, <<0, 2>>}

LoopBody ==
  <<Statement_expression(Operator_assignment("x", Operand_identifier("i")))>>

ExecuteLetStatement ==
  /\ Interpreting
  /\ \E name \in {"x", "y"}, is_mutable \in BOOLEAN, value \in {0, 1} :
       Execute("let", Statement_let(name, is_mutable, Literal_integer(value)))

ExecuteDebug ==
  /\ Interpreting
  /\ \E expression \in DebugExpressions :
       Execute("debug", Statement_debug(expression))

ExecuteRequire ==
  /\ Interpreting
  /\ \E expression \in {Literal_boolean(1), Literal_boolean(0),
                        Operator_binary("lesser", Operand_identifier("x"),
                                        Literal_integer(1))} :
       Execute("require", Statement_require(expression))

ExecuteConditional ==
  /\ Interpreting
  /\ \E c \in {0, 1}, main_block \in Arms,
        else_block \in {<<>>} \cup {<<arm>> : arm \in Arms} :
       Execute("conditional",
               Statement_expression(
                 ConditionalExpression_new(Literal_boolean(c), main_block, else_block)))

ExecuteLoop ==
  /\ Interpreting
  /\ \E range \in Ranges, is_range_inclusive \in BOOLEAN, while_condition \in Guards :
       Execute("loop", Statement_loop("i", range[1], range[2], is_range_inclusive,
                                      while_condition, LoopBody))

NextInterpreter ==
  \/ ExecuteLetStatement
  \/ ExecuteDebug
  \/ ExecuteRequire
  \/ ExecuteConditional
  \/ ExecuteLoop

SpecInterpreter == InitInterpreter /\ [][NextInterpreter]_vars

\* what a statement can change of an interpreter
Effects(i) == [id_sequence |-> i.id_sequence, system |-> i.system, scope |-> i.scope]

\* C22: a debug statement leaves the constraint system and the variables
\* as they were: it acquires no namespace and changes no variable.
C22_DebugHasNoEffect ==
  (last.op = "debug" /\ interp.error = "None") =>
    Effects(interp) = Effects(last.before)

\* C24: the guard of a loop is evaluated once at the start of every
\* iteration, before the body of that iteration; a body is entered only
\* directly after a guard that is true for the same index, and after the
\* first guard that is false nothing more of the loop happens.
C24_WhileEndsLoop ==
  (last.op = "loop" /\ last.statement.while_condition # <<>>) =>
    \A k \in 1..Len(last.trace) :
      LET e == last.trace[k]
      IN /\ e.event = "body" =>
              /\ k > 1
              /\ last.trace[k - 1] = [event |-> "guard", index |-> e.index, value |-> 1]
         /\ (e.event = "guard" /\ e.value = 0) => k = Len(last.trace)
         /\ (e.event = "guard" /\ k > 1) =>
              /\ last.trace[k - 1].event = "body"
              /\ last.trace[k - 1].index # e.index

C24_Witness ==
  /\ last.op = "loop" /\ interp.error = "None"
  /\ last.statement.range_start = 0 /\ last.statement.range_end = 3
  /\ Len(last.trace) = 5
  /\ last.trace[5] = [event |-> "guard", index |-> 2, value |-> 0]
  /\ last.trace[4].event = "body"

\* the assignments and the requirements of the arm
ArmAssigns(arm) == \E k \in 1..Len(arm.statements) : arm.statements[k].kind = "expression"

ArmRequires(arm) == \E k \in 1..Len(arm.statements) : arm.statements[k].kind = "require"

Selected(conditional) ==
  IF conditional.operands[1].value = 1 THEN <<conditional.operands[2]>>
  ELSE SubSeq(conditional.operands, 3, Len(conditional.operands))

\* C30: a conditional has the effects of the selected arm only: when that
\* arm requires nothing that fails the conditional does not fail with
\* RequireFailed, and when it assigns nothing no variable changes.
C30_OnlySelectedArm ==
  last.op = "conditional" =>
    LET selected == Selected(last.statement.expression)
    IN /\ (\A k \in 1..Len(selected) : ~ArmRequires(selected[k])) =>
            interp.error # "RequireFailed"
       /\ ((\A k \in 1..Len(selected) : ~ArmAssigns(selected[k]))
            /\ interp.error = "None") =>
            interp.scope = last.before.scope

\* ------------------------------------------------------- the `for` loop
\* the bounds expression as the expression analyzer answers it: a constant
\* range, a constant inclusive range or another element
Bounds_new(kind, start, end, is_signed, bitlength, location) ==
  [kind |-> kind, start |-> start, end |-> end, is_signed |-> is_signed,
   bitlength |-> bitlength, location |-> location]

ForStatement_new(location, index_identifier, bounds_expression, while_condition) ==
  [location |-> location, index_identifier |-> index_identifier,
   bounds_expression |-> bounds_expression, while_condition |-> while_condition]

GeneratorForLoopStatement_new(location, range_start, iterations_count, is_reversed,
                              index_identifier, is_index_signed, index_bitlength) ==
  [location |-> location, range_start |-> range_start,
   iterations_count |-> iterations_count, is_reversed |-> is_reversed,
   index_identifier |-> index_identifier, is_index_signed |-> is_index_signed,
   index_bitlength |-> index_bitlength]

\* Analyzer::for with an empty body; `overflow_checks` is the build: with
\* them the addition of line 480 panics at usize::MAX, without them it wraps
Analyzer_for(a, statement, overflow_checks) ==
  LET bounds == statement.bounds_expression
  IN IF bounds.kind \notin {"Range", "RangeInclusive"}
       THEN Failed(a, Error_new("LoopBoundsExpectedConstantRangeExpression",
                                bounds.location, "", NoLocation))
     ELSE
       LET a1 == ScopeStack_push(a)
           a2 == Scope_declare_variable(
                   a1, ScopeStack_top(a1), statement.index_identifier,
                   IF bounds.is_signed THEN Type_integer_signed(bounds.bitlength)
                   ELSE Type_integer_unsigned(bounds.bitlength))
           a3 == ScopeStack_pop(a2)
           is_inclusive == bounds.kind = "RangeInclusive"
           is_reversed == bounds.start > bounds.end
           iterations_count == IF is_reversed THEN bounds.start - bounds.end
                               ELSE bounds.end - bounds.start
           generated(count) ==
             [a3 EXCEPT !.generated =
                Append(@, GeneratorForLoopStatement_new(
                            statement.location, bounds.start, count, is_reversed,
                            statement.index_identifier.name, bounds.is_signed,
                            bounds.bitlength))]
       IN IF a2.error # NoError THEN a2
          ELSE IF statement.while_condition # <<>>
                  /\ statement.while_condition[1] # Type_boolean
            THEN Failed(a2, Error_new("LoopWhileExpectedBooleanCondition",
                                      statement.location, "", NoLocation))
          ELSE IF iterations_count > USIZE_MAX
            THEN Failed(a3, [Error_new("IntegerTooLarge", bounds.location, "", NoLocation)
                               EXCEPT !.value = iterations_count])
          ELSE IF ~is_inclusive THEN generated(iterations_count)
          ELSE IF iterations_count = USIZE_MAX /\ overflow_checks
            THEN Failed(a3, Error_new("AttemptToAddWithOverflow", statement.location,
                                      "", NoLocation))
          ELSE generated((iterations_count + 1) % (USIZE_MAX + 1))

\* the bounds of the loops: from below zero to beyond the machine word
RangeValues == (-1)..(USIZE_MAX + 2)

BoundsExpressions ==
  {Bounds_new(kind, start, end, TRUE, BITLENGTH_BYTE, Location_new(1, 10)) :
     kind \in {"Range", "RangeInclusive"}, start \in RangeValues, end \in RangeValues}
  \cup {Bounds_new("Place", 0, 0, FALSE, BITLENGTH_BYTE, Location_new(1, 10))}

NoFor ==
  ForStatement_new(NoLocation, Identifier_new(NoLocation, ""),
                   Bounds_new("None", 0, 0, FALSE, 0, NoLocation), <<>>)

Looped(op, statement, overflow_checks, trace) ==
  [op |-> op, statement |-> statement, overflow_checks |-> overflow_checks,
   trace |-> trace]

InitLoop ==
  /\ vm = InitState(TRUE, 0, 0)
  /\ setup = InitState(FALSE, 0, 0)
  /\ instr = Instruction("Start", 0, "", 0, "")
  /\ obs = StartObs
  /\ steps = 0
  /\ arms = <<>>
  /\ closed = NoBranch
  /\ finished = FALSE
  /\ blake = BlakeState(0, <<>>)
  /\ interp = Interpreter_new(<<<<>>>>, <<>>)
  /\ analyzer = Analyzer_new(<<Scope_new(0)>>, NoMembers, EmptyIndex)
  /\ last = Looped("new", NoFor, FALSE, <<>>)
  /\ process = NoProcess
  /\ compilation = NoCompilation
  /\ zrustm = Zrustm_new

\* the analyzer meets `for i in start..end {}` in a function body
AnalyzeFor ==
  /\ last.op = "new"
  /\ \E bounds \in BoundsExpressions, overflow_checks \in BOOLEAN,
        while_condition \in {<<>>, <<Type_boolean>>, <<Type_unit>>} :
       LET statement == ForStatement_new(Location_new(1, 1),
                                         Identifier_new(Location_new(1, 5), "i"),
                                         bounds, while_condition)
       IN /\ analyzer' = Analyzer_for(analyzer, statement, overflow_checks)
          /\ last' = Looped("for", statement, overflow_checks, <<>>)
  /\ UNCHANGED <<vmVars, blake, interp, process, compilation, zrustm>>

\* the interpreter executes the loop the analyzer accepted
InterpretFor ==
  /\ last.op = "for" /\ analyzer.error = NoError
  /\ last.statement.while_condition = <<>>
  /\ last.statement.bounds_expression.start \in 0..USIZE_MAX
  /\ last.statement.bounds_expression.end \in 0..USIZE_MAX
  /\ LET bounds == last.statement.bounds_expression
         after == Interpreter_execute_statement(
                    interp,
                    Statement_loop("i", bounds.start, bounds.end,
                                   bounds.kind = "RangeInclusive", <<>>, <<>>))
     IN /\ interp' = [after EXCEPT !.trace = <<>>]
        /\ last' = Looped("loop", last.statement, last.overflow_checks, after.trace)
  /\ UNCHANGED <<vmVars, blake, analyzer, process, compilation, zrustm>>

NextLoop ==
  \/ AnalyzeFor
  \/ InterpretFor

SpecLoop == InitLoop /\ [][NextLoop]_vars

\* the index values of the range
IndexValues(bounds) ==
  LET low == IF bounds.start > bounds.end THEN bounds.end ELSE bounds.start
      high == IF bounds.start > bounds.end THEN bounds.start ELSE bounds.end
  IN (high - low) + (IF bounds.kind = "RangeInclusive" THEN 1 ELSE 0)

\* C26: a loop whose bounds are not a constant range is rejected with
\* LoopBoundsExpectedConstantRangeExpression; a constant range whose number
\* of index values does not fit the machine word is rejected with
\* IntegerTooLarge; any other gives is_reversed = (start > end) and that
\* number as iterations_count, which is the number of times the interpreter
\* enters the body for the same bounds.
C26_IterationsCount ==
  (last.op \in {"for", "loop"} /\ last.statement.while_condition \in {<<>>, <<Type_boolean>>}) =>
    LET bounds == last.statement.bounds_expression
    IN IF bounds.kind \notin {"Range", "RangeInclusive"}
         THEN analyzer.error.kind = "LoopBoundsExpectedConstantRangeExpression"
       ELSE IF IndexValues(bounds) > USIZE_MAX
         THEN analyzer.error.kind = "IntegerTooLarge"
       ELSE /\ analyzer.error = NoError
            /\ Len(analyzer.generated) = 1
            /\ analyzer.generated[1].is_reversed = (bounds.start > bounds.end)
            /\ analyzer.generated[1].iterations_count = IndexValues(bounds)
            /\ last.op = "loop" =>
                 /\ interp.error = "None"
                 /\ Len(last.trace) = IndexValues(bounds)

\* ---------------------------------------------- the emitted instructions
\* The instructions of an entry module with dependency modules, laid out as
\* semantic/tests/ok_algorithm_modules.rs expects them: the call of `main`
\* and the exit, the functions of the dependencies, the initialisers of
\* the statics of the entry module, then `main`.
Call_new(address, input_size) == Instruction("Call", address, "", input_size, "")

Exit_new(outputs_count) == Instruction("Exit", 0, "", outputs_count, "")

Return_new(outputs_count) == Instruction("Return", 0, "", outputs_count, "")

Load_new(index) == Instruction("Load", 0, "", index, "")

Store_new(index) == Instruction("Store", 0, "", index, "")

LoadGlobal_new(index) == Instruction("LoadGlobal", 0, "", index, "")

StoreGlobal_new(index) == Instruction("StoreGlobal", 0, "", index, "")

PushConst_new(value, type) == Instruction("PushConst", value, type, 0, "")

Cast_new(type) == Instruction("Cast", 0, type, 0, "")

Operator_new(op) == Instruction(op, 0, "", 0, "")

\* the expected instructions of the test
ExpectedInstructions ==
  <<Call_new(17, 0), Exit_new(1),
    Load_new(1), Load_new(0), Operator_new("Add"), Return_new(1),
    Load_new(1), Load_new(0), Operator_new("Sub"), Return_new(1),
    Load_new(1), Load_new(0), Operator_new("Mul"), Return_new(1),
    PushConst_new(5, "u8"), Cast_new("field"), StoreGlobal_new(0),
    PushConst_new(69, "u8"), Cast_new("field"), Store_new(0),
    LoadGlobal_new(0), PushConst_new(42, "field"), Call_new(2, 2),
    Load_new(0), Call_new(6, 2),
    PushConst_new(5, "u8"), Cast_new("field"), Call_new(10, 2),
    Return_new(1)>>

\* `fn f(a: field, b: field) -> field { a op b }` of a dependency module
DependencyFunction(op) == <<Load_new(1), Load_new(0), Operator_new(op), Return_new(1)>>

\* `static STATIC: field = value;`
StaticInitializer(index, value) ==
  <<PushConst_new(value, "u8"), Cast_new("field"), StoreGlobal_new(index)>>

\* `let var: field = 69;`
MainPrologue == <<PushConst_new(69, "u8"), Cast_new("field"), Store_new(0)>>

\* the first instructions of the function
FunctionBody(callee) == IF callee = "main" THEN MainPrologue ELSE DependencyFunction(callee)

RECURSIVE Concatenated(_)
Concatenated(q) == IF q = <<>> THEN <<>> ELSE Head(q) \o Concatenated(Tail(q))

\* the address of the function of the k-th dependency
DependencyAddress(k) == 2 + 4 * (k - 1)

\* the second operand of the k-th call of `main`: CONST (or the second
\* static), `var`, `5 as field`
MainOperand(k, statics) ==
  IF k = 1 THEN (IF Len(statics) > 1 THEN <<LoadGlobal_new(1)>>
                 ELSE <<PushConst_new(42, "field")>>)
  ELSE IF k = 2 THEN <<Load_new(0)>>
  ELSE <<PushConst_new(5, "u8"), Cast_new("field")>>

\* the instructions of the entry module whose `main` folds the functions
\* of its dependencies over a static, a constant, a variable and a literal
Bytecode_emit(dependencies, statics) ==
  LET main_address == 2 + 4 * Len(dependencies) + 3 * Len(statics)
      main == MainPrologue
              \o (IF statics # <<>> THEN <<LoadGlobal_new(0)>>
                  ELSE <<PushConst_new(5, "field")>>)
              \o Concatenated([k \in 1..Len(dependencies) |->
                                 MainOperand(k, statics)
                                   \o <<Call_new(DependencyAddress(k), 2)>>])
              \o <<Return_new(1)>>
  IN <<Call_new(main_address, 0), Exit_new(1)>>
     \o Concatenated([k \in 1..Len(dependencies) |-> DependencyFunction(dependencies[k])])
     \o Concatenated([k \in 1..Len(statics) |-> StaticInitializer(k - 1, statics[k])])
     \o main

\* the function every call of the program names, by the position of the call
Bytecode_callees(dependencies, statics) ==
  LET program == Bytecode_emit(dependencies, statics)
      calls == {k \in 1..Len(program) : program[k].op = "Call"}
  IN [k \in 1..Len(program) |->
        IF k = 1 THEN "main"
        ELSE IF k \in calls
          THEN dependencies[Cardinality({j \in calls : j < k})]
        ELSE ""]

\* a slot of the data stack or of the globals
Slot(set, type, value) == [set |-> set, t |-> type, v |-> value]

NoSlots == <<Slot(FALSE, "", 0), Slot(FALSE, "", 0)>>

\* the virtual machine before the first instruction
VirtualMachine_new(program, callees) ==
  [program |-> program, callees |-> callees, pc |-> 0, evaluation |-> <<>>,
   frames |-> <<>>, globals |-> NoSlots, error |-> "None", halted |-> FALSE,
   output |-> <<>>]

Malformed(machine) == [machine EXCEPT !.error = "MalformedBytecode"]

\* one instruction: fetch, evaluate, advance
VirtualMachine_step(machine) ==
  IF machine.pc >= Len(machine.program) THEN Malformed(machine)
  ELSE
    LET i == machine.program[machine.pc + 1]
        stack == machine.evaluation
        n == Len(stack)
        next == [machine EXCEPT !.pc = @ + 1]
        frame == machine.frames[Len(machine.frames)]
    IN IF i.op = "Call" THEN
         IF n < i.index THEN Malformed(machine)
         ELSE [machine EXCEPT
                 !.pc = i.value,
                 !.evaluation = SubSeq(stack, 1, n - i.index),
                 !.frames = Append(@, [locals |-> [k \in 1..2 |->
                                                     IF k <= i.index
                                                       THEN Slot(TRUE, stack[n - k + 1].t,
                                                                 stack[n - k + 1].v)
                                                     ELSE Slot(FALSE, "", 0)],
                                       return_address |-> machine.pc + 1])]
       ELSE IF i.op = "Return" THEN
         IF machine.frames = <<>> \/ n < i.index THEN Malformed(machine)
         ELSE [machine EXCEPT !.pc = frame.return_address, !.frames = Front(@)]
       ELSE IF i.op = "Exit" THEN
         IF n < i.index THEN Malformed(machine)
         ELSE [machine EXCEPT !.halted = TRUE,
                              !.output = SubSeq(stack, n - i.index + 1, n)]
       ELSE IF i.op = "PushConst" THEN
         [next EXCEPT !.evaluation = Append(@, [t |-> i.type, v |-> i.value])]
       ELSE IF i.op = "Cast" THEN
         IF n < 1 THEN Malformed(machine)
         ELSE [next EXCEPT !.evaluation[n].t = i.type]
       ELSE IF i.op = "Load" THEN
         IF machine.frames = <<>> THEN Malformed(machine)
         ELSE IF ~frame.locals[i.index + 1].set THEN Malformed(machine)
         ELSE [next EXCEPT !.evaluation =
                 Append(@, [t |-> frame.locals[i.index + 1].t,
                            v |-> frame.locals[i.index + 1].v])]
       ELSE IF i.op = "Store" THEN
         IF machine.frames = <<>> \/ n < 1 THEN Malformed(machine)
         ELSE [next EXCEPT !.evaluation = Front(@),
                           !.frames[Len(machine.frames)].locals[i.index + 1] =
                             Slot(TRUE, stack[n].t, stack[n].v)]
       ELSE IF i.op = "LoadGlobal" THEN
         IF ~machine.globals[i.index + 1].set THEN Malformed(machine)
         ELSE [next EXCEPT !.evaluation =
                 Append(@, [t |-> machine.globals[i.index + 1].t,
                            v |-> machine.globals[i.index + 1].v])]
       ELSE IF i.op = "StoreGlobal" THEN
         IF n < 1 THEN Malformed(machine)
         ELSE [next EXCEPT !.evaluation = Front(@),
                           !.globals[i.index + 1] = Slot(TRUE, stack[n].t, stack[n].v)]
       ELSE
         \* Add, Sub, Mul; the values of `field` are kept as integers
         IF n < 2 THEN Malformed(machine)
         ELSE [next EXCEPT !.evaluation =
                 Append(SubSeq(stack, 1, n - 2),
                        [t |-> stack[n - 1].t,
                         v |-> IF i.op = "Add" THEN stack[n - 1].v + stack[n].v
                               ELSE IF i.op = "Sub" THEN stack[n - 1].v - stack[n].v
                               ELSE stack[n - 1].v * stack[n].v])]

\* the dependencies of the entry module: up to three modules, each with a
\* function of its own
DependencyLists ==
  {<<>>} \cup {<<a>> : a \in {"Add", "Sub", "Mul"}}
  \cup {<<a, b>> : a \in {"Add", "Sub", "Mul"}, b \in {"Add", "Sub", "Mul"}}
  \cup {<<"Add", "Sub", "Mul">>, <<"Mul", "Sub", "Add">>}

StaticLists == {<<>>, <<5>>, <<5, 7>>}

InitBytecode ==
  /\ vm = InitState(TRUE, 0, 0)
  /\ setup = InitState(FALSE, 0, 0)
  /\ instr = Instruction("Start", 0, "", 0, "")
  /\ obs = StartObs
  /\ steps = 0
  /\ arms = <<>>
  /\ closed = NoBranch
  /\ finished = FALSE
  /\ blake = BlakeState(0, <<>>)
  /\ interp = InterpreterNew
  /\ analyzer = Analyzer_new(<<Scope_new(0)>>, NoMembers, EmptyIndex)
  /\ last = Instruction("Start", 0, "", 0, "")
  /\ process = NoProcess
  /\ compilation = NoCompilation
  /\ zrustm = VirtualMachine_new(<<>>, <<>>)

\* the compiler emits the instructions of an entry module
Emit ==
  /\ last.op = "Start"
  /\ \E dependencies \in DependencyLists, statics \in StaticLists :
       zrustm' = VirtualMachine_new(Bytecode_emit(dependencies, statics),
                                    Bytecode_callees(dependencies, statics))
  /\ last' = Instruction("Emit", 0, "", 0, "")
  /\ UNCHANGED <<vmVars, blake, interp, analyzer, process, compilation>>

\* the virtual machine executes the instruction at its counter
Step ==
  /\ last.op # "Start" /\ zrustm.error = "None" /\ ~zrustm.halted
  /\ zrustm' = VirtualMachine_step(zrustm)
  /\ last' = IF zrustm.pc < Len(zrustm.program) THEN zrustm.program[zrustm.pc + 1]
             ELSE Instruction("End", 0, "", 0, "")
  /\ UNCHANGED <<vmVars, blake, interp, analyzer, process, compilation>>

NextBytecode ==
  \/ Emit
  \/ Step

SpecBytecode == InitBytecode /\ [][NextBytecode]_vars

\* every call targets the first instruction of the function it calls
CallsTargetFunctions ==
  \A k \in 1..Len(zrustm.program) :
    zrustm.program[k].op = "Call" =>
      LET body == FunctionBody(zrustm.callees[k])
          address == zrustm.program[k].value
      IN /\ address + Len(body) <= Len(zrustm.program)
         /\ SubSeq(zrustm.program, address + 1, address + Len(body)) = body

\* C28: every Call of the emitted instructions targets the first
\* instruction of the function it calls, and in the execution from
\* instruction 0 no LoadGlobal finds its global without a value: the
\* StoreGlobal of the static has been executed before.
C28_GlobalsStoredBeforeLoaded ==
  /\ CallsTargetFunctions
  /\ last.op = "LoadGlobal" => zrustm.error = "None"

====
